---- MODULE Spec2Model ----
(***************************************************************************)
(* A model of the LSM engine: the group-commit write path, the memtable    *)
(* rotation, the background flush and compaction, the versioned file set,  *)
(* the read path (Get and the DB iterator) and the open/close life cycle.  *)
(* User keys are one-byte strings, modelled as the integers 1..NumKeys in  *)
(* bytewise order; a value is a one-byte token that is different for every *)
(* Put.                                                                    *)
(***************************************************************************)
EXTENDS Integers, Sequences, FiniteSets, TLC

\* ------------------------------------------------------------------ bounds
NumKeys == 2
NumWriters == 2
MaxWritesSeq == 6
MaxDeletesSeq == 1
MaxWritesIter == 5
MaxDeletesIter == 1
MaxWritesConc == 4
NumKeysConc == 4
MaxWritesFail == 4
MaxWritesLife == 3
MaxOpens == 2
MaxBgFailures == 1
MaxWritesBgFail == 4
MaxWritesRev == 3
MaxDeletesRev == 1
MaxWritesLevels == 9
MaxFileSizeSmall == 0
MaxWritesSnap == 6
MaxDeletesSnap == 1
MaxWritesRefs == 5
MaxWritesShut == 5
MaxWritesLogFail == 4
MaxWritesReadErr == 6
MaxWritesRace == 6
MaxWritesLive == 6
NumKeysLive == 1
WriteBufferSeq == 75
WriteBufferSmall == 0
MaxWritesStop == 27
MaxWritesWal == 2
MaxWritesSeek == 4
MaxRecords == 2
MaxWritesBig == 4
LargeValueBase == 1000
LargeValueSize == 40000
MaxDataLen == 2
MaxByte == 2
CrcModulus == 65521
NumKeysSeek == 3
MaxFileNumberLive == 40
WriteBufferLarge == 4194304
MaxCompactFailures == 8
WriteBufferOne == 76

\* ------------------------------------------------------- program constants
kTypeDeletion == 0
kTypeValue == 1
kNumLevels == 7
kL0_CompactionTrigger == 4
kL0_SlowdownWritesTrigger == 8
kL0_StopWritesTrigger == 12
kMaxBatchSize == 1048576
kMaxWalRecord == 65535
kMaxGrandParentOverlapBytes == 10485760
kLevel1MaxBytes == 10485760
kFirstFileNumber == 2
kSkipListOverhead == 64
kDefaultMaxFileSize == 2097152
kFooterSize == 48
kHeaderSize == 7
kRecordTypeFull == 1
kMaskDelta == 41
\* (1 << 56) - 1 in the source, used only as a sentinel above every sequence;
\* here the largest integer of the model.
kMaxSequenceNumber == 2147483647

Keys == 1..NumKeys
Levels == 0..(kNumLevels - 1)
Writers == 1..NumWriters

\* ------------------------------------------------- keys and the comparators
\* An entry of a memtable or a table: the internal key (user_key, sequence,
\* type) and its value.
NoEntry == [user_key |-> 0, sequence |-> 0, type |-> 0, value |-> 0]

PackSequenceAndType(seq, t) == seq * 256 + t

\* BytewiseComparator::Compare on one-byte keys.
UserCompare(a, b) == IF a < b THEN -1 ELSE IF a > b THEN 1 ELSE 0

\* InternalKeyComparator::Compare: user key ascending, then the packed
\* (sequence, type) word descending.
InternalKeyCompare(a, b) ==
    LET r == UserCompare(a.user_key, b.user_key)
        pa == PackSequenceAndType(a.sequence, a.type)
        pb == PackSequenceAndType(b.sequence, b.type)
    IN  IF r # 0 THEN r
        ELSE IF pa > pb THEN -1
        ELSE IF pa < pb THEN 1
        ELSE 0

\* LookupKey: the internal key a reader with snapshot `sequence` seeks to.
LookupKey(user_key, sequence) ==
    [user_key |-> user_key, sequence |-> sequence, type |-> kTypeValue, value |-> 0]

SmallestOf(S) == CHOOSE e \in S : \A o \in S : InternalKeyCompare(e, o) <= 0
LargestOf(S) == CHOOSE e \in S : \A o \in S : InternalKeyCompare(e, o) >= 0

\* Iterator::Seek on a sorted collection: the first entry >= target, or NoEntry.
SeekIn(S, target) ==
    LET C == {e \in S : InternalKeyCompare(e, target) >= 0}
    IN  IF C = {} THEN NoEntry ELSE SmallestOf(C)

\* The entries of S in iteration order.
RECURSIVE SortedEntries(_)
SortedEntries(S) ==
    IF S = {} THEN <<>>
    ELSE LET m == SmallestOf(S) IN <<m>> \o SortedEntries(S \ {m})

RECURSIVE SumOver(_, _)
SumOver(f, S) ==
    IF S = {} THEN 0
    ELSE LET x == CHOOSE x \in S : TRUE IN f[x] + SumOver(f, S \ {x})

\* ------------------------------------------------------------ the memtable
\* The size of the value of an entry or of a Writer: one byte for the values
\* the scenarios number from 1, LargeValueSize bytes for the values they
\* number from LargeValueBase, none for a deletion.
ValueSize(e) ==
    IF e.type # kTypeValue THEN 0
    ELSE IF e.value >= LargeValueBase THEN LargeValueSize
    ELSE 1

VarintLength(n) == IF n < 128 THEN 1 ELSE IF n < 16384 THEN 2 ELSE 3

\* MemTable::Add's accounting of one entry: encoded length plus node overhead.
EntryMemoryUsage(e) ==
    VarintLength(1 + 8) + (1 + 8) + VarintLength(ValueSize(e)) + ValueSize(e)
        + kSkipListOverhead

ApproximateMemoryUsage(table) ==
    SumOver([e \in table |-> EntryMemoryUsage(e)], table)

\* MemTable::Get: seek to the lookup key; a hit needs the same user key.
MemTableGet(table, lkey) ==
    LET e == SeekIn(table, lkey)
    IN  IF e # NoEntry /\ UserCompare(e.user_key, lkey.user_key) = 0
        THEN IF e.type = kTypeValue
             THEN [hit |-> TRUE, status |-> "OK", value |-> e.value, sequence |-> e.sequence]
             ELSE [hit |-> TRUE, status |-> "NotFound", value |-> 0, sequence |-> e.sequence]
        ELSE [hit |-> FALSE, status |-> "OK", value |-> 0, sequence |-> 0]

\* ---------------------------------------------------------------- tables
InternalKeyOf(e) == [user_key |-> e.user_key, sequence |-> e.sequence, type |-> e.type]
NoKey == [user_key |-> 0, sequence |-> 0, type |-> 0]

\* Bytes one entry adds to a table: the internal key and the value.
EntryFileBytes(e) == 1 + 8 + ValueSize(e)

\* TableBuilder::FileSize after Finish: the entries and the footer.
TableFileSize(S) == SumOver([e \in S |-> EntryFileBytes(e)], S) + kFooterSize

\* The FileMetaData of a table with the entries S.
MakeFileMetaData(number, S) ==
    [number |-> number, file_size |-> TableFileSize(S),
     smallest |-> IF S = {} THEN NoKey ELSE InternalKeyOf(SmallestOf(S)),
     largest |-> IF S = {} THEN NoKey ELSE InternalKeyOf(LargestOf(S))]

\* Table::InternalGet followed by SaveValue: the first entry >= ikey of the
\* table decides, and only when it has the user key looked up.  The Bloom
\* filter is over user keys and has no false negatives, so it never hides an
\* entry that the seek would have found.
SaveValue(e, user_key) ==
    IF e # NoEntry /\ UserCompare(e.user_key, user_key) = 0
    THEN [state |-> IF e.type = kTypeValue THEN "kFound" ELSE "kDeleted",
          value |-> e.value, sequence |-> e.sequence]
    ELSE [state |-> "kNotFound", value |-> 0, sequence |-> 0]

TableCacheGet(tables, number, ikey) ==
    IF number \in DOMAIN tables
    THEN SaveValue(SeekIn(tables[number], ikey), ikey.user_key)
    ELSE [state |-> "kNotFound", value |-> 0, sequence |-> 0]

\* ---------------------------------------------------------------- Version
SeqToSet(s) == {s[i] : i \in DOMAIN s}

RECURSIVE FilterSeq(_, _)
FilterSeq(s, keep) ==
    IF s = <<>> THEN <<>>
    ELSE IF Head(s) \in keep THEN <<Head(s)>> \o FilterSeq(Tail(s), keep)
    ELSE FilterSeq(Tail(s), keep)

\* std::sort(tmp, NewestFirst): level-0 files by descending file number.
RECURSIVE NewestFirst(_)
NewestFirst(F) ==
    IF F = {} THEN <<>>
    ELSE LET m == CHOOSE f \in F : \A o \in F : f.number >= o.number
         IN  <<m>> \o NewestFirst(F \ {m})

\* FindFile: binary search for the first file whose largest key is >= key.
\* Indices count from 0 as in the source.
RECURSIVE FindFileSearch(_, _, _, _)
FindFileSearch(files, key, left, right) ==
    IF left < right
    THEN LET mid == (left + right) \div 2
         IN  IF InternalKeyCompare(files[mid + 1].largest, key) < 0
             THEN FindFileSearch(files, key, mid + 1, right)
             ELSE FindFileSearch(files, key, left, mid)
    ELSE right

FindFile(files, key) == FindFileSearch(files, key, 0, Len(files))

\* The files of one level that Version::Get consults, in order.
FilesToSearch(files, level, ikey) ==
    IF Len(files) = 0 THEN <<>>
    ELSE IF level = 0
    THEN NewestFirst({f \in SeqToSet(files) :
             /\ UserCompare(ikey.user_key, f.smallest.user_key) >= 0
             /\ UserCompare(ikey.user_key, f.largest.user_key) <= 0})
    ELSE LET index == FindFile(files, ikey)
         IN  IF index >= Len(files) THEN <<>>
             ELSE IF UserCompare(ikey.user_key, files[index + 1].smallest.user_key) < 0
             THEN <<>>
             ELSE <<files[index + 1]>>

RECURSIVE SearchFiles(_, _, _, _)
SearchFiles(tables, files, i, ikey) ==
    IF i > Len(files) THEN [state |-> "kNotFound", value |-> 0, sequence |-> 0]
    ELSE LET r == TableCacheGet(tables, files[i].number, ikey)
         IN  IF r.state # "kNotFound" THEN r
             ELSE SearchFiles(tables, files, i + 1, ikey)

\* Version::Get: level by level, the first hit (a value or a deletion) ends
\* the lookup.
RECURSIVE VersionGetFrom(_, _, _, _)
VersionGetFrom(files_, tables, ikey, level) ==
    IF level >= kNumLevels
    THEN [status |-> "NotFound", value |-> 0, sequence |-> 0]
    ELSE LET r == SearchFiles(tables, FilesToSearch(files_[level], level, ikey), 1, ikey)
         IN  IF r.state = "kFound"
             THEN [status |-> "OK", value |-> r.value, sequence |-> r.sequence]
             ELSE IF r.state = "kDeleted"
             THEN [status |-> "NotFound", value |-> 0, sequence |-> r.sequence]
             ELSE VersionGetFrom(files_, tables, ikey, level + 1)

VersionGet(files_, tables, ikey) == VersionGetFrom(files_, tables, ikey, 0)

\* The part of DBImpl::Get after the snapshot: mem, then imm, then the Version.
\* `sequence` in the result is the sequence number of the entry that decided
\* (0 when no entry did).
LookupIn(mem, hasImm, imm, files_, tables, seq, key) ==
    LET lkey == LookupKey(key, seq)
        m == MemTableGet(mem, lkey)
        i == IF hasImm THEN MemTableGet(imm, lkey)
             ELSE [hit |-> FALSE, status |-> "OK", value |-> 0, sequence |-> 0]
    IN  IF m.hit THEN [status |-> m.status, value |-> m.value, sequence |-> m.sequence]
        ELSE IF i.hit THEN [status |-> i.status, value |-> i.value, sequence |-> i.sequence]
        ELSE VersionGet(files_, tables, lkey)

\* ------------------------------------------------------------- VersionEdit
NewVersionEdit ==
    [has_log_number_ |-> FALSE, log_number_ |-> 0,
     has_prev_log_number_ |-> FALSE, prev_log_number_ |-> 0,
     next_file_number_ |-> 0, last_sequence_ |-> 0,
     deleted_files_ |-> {}, new_files_ |-> <<>>]

SetLogNumber(edit, num) == [edit EXCEPT !.has_log_number_ = TRUE, !.log_number_ = num]
SetPrevLogNumber(edit, num) ==
    [edit EXCEPT !.has_prev_log_number_ = TRUE, !.prev_log_number_ = num]
AddFile(edit, level, f) ==
    [edit EXCEPT !.new_files_ = Append(@, [level |-> level, file |-> f])]
DeleteFile(edit, level, number) ==
    [edit EXCEPT !.deleted_files_ = @ \cup {<<level, number>>}]

\* ------------------------------------------------------- VersionSetBuilder
\* An order by largest key first.
ByLargestKey(f1, f2) ==
    LET r == InternalKeyCompare(f1.smallest, f2.smallest)
    IN  IF r # 0 THEN r > 0 ELSE f1.number > f2.number

\* BySmallestKey: by smallest internal key, ties broken by file number.
BySmallestKey(f1, f2) ==
    LET r == InternalKeyCompare(f1.smallest, f2.smallest)
    IN  IF r # 0 THEN r < 0 ELSE f1.number < f2.number

\* The std::set<FileMetaData*, BySmallestKey> of added files, in its order.
RECURSIVE SortBySmallestKey(_)
SortBySmallestKey(F) ==
    IF F = {} THEN <<>>
    ELSE LET m == CHOOSE f \in F : \A o \in F \ {f} : BySmallestKey(f, o)
         IN  <<m>> \o SortBySmallestKey(F \ {m})

\* A merge that puts the added files after the base files.
MergeFilesAppended(base, added) == base \o added

\* SaveTo's merge of the base files with the added files: before each added
\* file come the base files up to upper_bound(added file).
RECURSIVE MergeFiles(_, _)
MergeFiles(base, added) ==
    IF added = <<>> THEN base
    ELSE IF base # <<>> /\ ~BySmallestKey(Head(added), Head(base))
    THEN <<Head(base)>> \o MergeFiles(Tail(base), added)
    ELSE <<Head(added)>> \o MergeFiles(base, Tail(added))

\* Apply followed by SaveTo, for one level.
BuilderLevel(base_files, edit, level) ==
    LET added == {edit.new_files_[i].file : i \in
                     {j \in DOMAIN edit.new_files_ : edit.new_files_[j].level = level}}
        deleted == {d[2] : d \in {x \in edit.deleted_files_ : x[1] = level}}
                       \ {f.number : f \in added}
        merged == MergeFiles(base_files, SortBySmallestKey(added))
    IN  FilterSeq(merged, {f \in SeqToSet(merged) : f.number \notin deleted})

\* -------------------------------------------------------------- VersionSet
RECURSIVE MaxBytesForLevel(_)
MaxBytesForLevel(level) ==
    IF level > 1 THEN 10 * MaxBytesForLevel(level - 1) ELSE kLevel1MaxBytes

RECURSIVE TotalFileSize(_)
TotalFileSize(files) ==
    IF files = <<>> THEN 0 ELSE Head(files).file_size + TotalFileSize(Tail(files))

\* A score is kept as a fraction; an empty level scores 0.
LevelScore(files_, level) ==
    IF level = 0 THEN [num |-> Len(files_[0]), den |-> kL0_CompactionTrigger]
    ELSE IF TotalFileSize(files_[level]) = 0 THEN [num |-> 0, den |-> 1]
    ELSE [num |-> TotalFileSize(files_[level]), den |-> MaxBytesForLevel(level)]

ScoreGreater(a, b) == a.num * b.den > b.num * a.den

RECURSIVE FinalizeFrom(_, _, _, _)
FinalizeFrom(files_, level, best_level, best_score) ==
    IF level >= kNumLevels - 1
    THEN [files_ |-> files_, compaction_level_ |-> best_level,
          compaction_score_ |-> best_score, file_to_compact_ |-> 0]
    ELSE LET score == LevelScore(files_, level)
         IN  IF ScoreGreater(score, best_score)
             THEN FinalizeFrom(files_, level + 1, level, score)
             ELSE FinalizeFrom(files_, level + 1, best_level, best_score)

\* Finalize: the Version with its precomputed compaction level and score.
Finalize(files_) == FinalizeFrom(files_, 0, -1, [num |-> -1, den |-> 1])

\* Version::Version: no files, score -1, and file_to_compact_ null (0), which
\* no code assigns again.
NewVersion ==
    [files_ |-> [l \in Levels |-> <<>>], compaction_level_ |-> -1,
     compaction_score_ |-> [num |-> -1, den |-> 1], file_to_compact_ |-> 0]

\* VersionSet::VersionSet.
\* ---------------------------------------------------------- reference counts
\* refs_ of the MemTables, and of the Versions, that have not been destroyed:
\* a function from the object to its count.
RefCount(refs, n) == IF n \in DOMAIN refs THEN refs[n] ELSE 0

\* MemTable::Ref and Version::Ref on the object n (0: a null pointer, which the
\* callers test for).
Ref(refs, n) ==
    IF n = 0 THEN refs
    ELSE [m \in DOMAIN refs \cup {n} |-> RefCount(refs, m) + (IF m = n THEN 1 ELSE 0)]

\* MemTable::Unref and Version::Unref: the object is destroyed when its count
\* reaches zero.
UnrefObject(refs, n) ==
    IF n = 0 THEN refs
    ELSE IF RefCount(refs, n) = 1 THEN [m \in DOMAIN refs \ {n} |-> refs[m]]
    ELSE [m \in DOMAIN refs \cup {n} |-> RefCount(refs, m) - (IF m = n THEN 1 ELSE 0)]

\* VersionSet::VersionSet: AppendVersion(new Version(this)).
\* `descriptor_status_` is the status_ the WalWriter of the manifest latches.
\* `current_id_`
\* names the Version object current_ points to: Versions are numbered in the
\* order of their creation, and `version_refs_` holds their refs_.
\* `allowed_seeks_` holds FileMetaData::allowed_seeks of the files the
\* Versions name, by file number.
NewVersionSet ==
    [next_file_number_ |-> kFirstFileNumber, manifest_file_number_ |-> 0,
     last_sequence_ |-> 0, log_number_ |-> 0, prev_log_number_ |-> 0,
     current_ |-> NewVersion, compact_pointer_ |-> [l \in Levels |-> NoKey],
     descriptor_log_ |-> FALSE, descriptor_status_ |-> "OK",
     current_id_ |-> 1, version_refs_ |-> (1 :> 1), allowed_seeks_ |-> <<>>]

\* VersionSet::AppendVersion: the Version that was current loses the
\* reference of the VersionSet and the new one gets it.
AppendVersion(vs, v) ==
    [vs EXCEPT !.current_ = v, !.current_id_ = @ + 1,
               !.version_refs_ = Ref(UnrefObject(@, vs.current_id_), vs.current_id_ + 1)]

\* WriteSnapshot: one record with the files of the current version.
WriteSnapshot(vs) ==
    [snapshot |-> TRUE, log_number_ |-> 0, next_file_number_ |-> 0,
     last_sequence_ |-> 0, deleted_files_ |-> {},
     new_files_ |-> [l \in Levels |-> vs.current_.files_[l]]]

EncodeEdit(edit) ==
    [snapshot |-> FALSE, log_number_ |-> edit.log_number_,
     next_file_number_ |-> edit.next_file_number_,
     last_sequence_ |-> edit.last_sequence_, deleted_files_ |-> edit.deleted_files_,
     new_files_ |-> [l \in Levels |-> FilterSeq(
         [i \in DOMAIN edit.new_files_ |-> edit.new_files_[i].file],
         {edit.new_files_[i].file : i \in
             {j \in DOMAIN edit.new_files_ : edit.new_files_[j].level = l}})]]

\* A LogAndApply that installs the Version whatever the manifest said.
EditAlwaysInstalled(status) == TRUE

\* VersionSetBuilder::Apply: the FileMetaData of a file the edit adds gets
\* allowed_seeks = file_size / 16384, and 100 when that is less.
AllowedSeeks(f) == IF f.file_size \div 16384 < 100 THEN 100 ELSE f.file_size \div 16384

AllowedSeeksApplied(seeks, edit) ==
    [n \in DOMAIN seeks \cup {edit.new_files_[i].file.number : i \in DOMAIN edit.new_files_} |->
        IF \E i \in DOMAIN edit.new_files_ : edit.new_files_[i].file.number = n
        THEN AllowedSeeks(edit.new_files_[CHOOSE i \in DOMAIN edit.new_files_ :
                                              edit.new_files_[i].file.number = n].file)
        ELSE seeks[n]]

\* The test under which LogAndApply installs the new Version: the record of
\* the edit was appended to the manifest and synced.
EditLogged(status) == status = "OK"

\* LogAndApply: fills the edit, builds the new Version, appends the edit to
\* the manifest (creating it with a snapshot record first when it is not open)
\* and syncs it; when all that succeeded it installs the Version and takes the
\* log numbers of the edit, otherwise it deletes the Version, and removes the
\* manifest when this call had created it.  `manifest` is the content of the
\* manifest file; `failure` says where the file system fails: "none",
\* "append" or "sync".
LogAndApplyWith(vs, edit0, manifest, failure) ==
    LET edit1 == IF edit0.has_log_number_ THEN edit0 ELSE SetLogNumber(edit0, vs.log_number_)
        edit2 == IF edit1.has_prev_log_number_ THEN edit1
                 ELSE SetPrevLogNumber(edit1, vs.prev_log_number_)
        edit == [edit2 EXCEPT !.next_file_number_ = vs.next_file_number_,
                              !.last_sequence_ = vs.last_sequence_]
        v == Finalize([l \in Levels |-> BuilderLevel(vs.current_.files_[l], edit, l)])
        created == ~vs.descriptor_log_
        records == IF created THEN <<WriteSnapshot(vs), EncodeEdit(edit)>>
                   ELSE <<EncodeEdit(edit)>>
        latched == IF created THEN "OK" ELSE vs.descriptor_status_
        status == IF latched # "OK" THEN latched
                  ELSE IF failure = "none" THEN "OK" ELSE "IOError"
        appended == IF latched # "OK" \/ failure = "append" THEN manifest
                    ELSE manifest \o records
    IN  IF EditLogged(status)
        THEN [versions_ |-> [AppendVersion(vs, v) EXCEPT
                                 !.log_number_ = edit.log_number_,
                                 !.prev_log_number_ = edit.prev_log_number_,
                                 !.descriptor_log_ = TRUE,
                                 !.descriptor_status_ = status,
                                 !.allowed_seeks_ = AllowedSeeksApplied(@, edit)],
              manifest |-> appended, status |-> status]
        ELSE [versions_ |-> [vs EXCEPT !.descriptor_log_ = ~created,
                                       !.descriptor_status_ =
                                           IF created THEN "OK" ELSE status],
              manifest |-> IF created THEN <<>> ELSE appended,
              status |-> status]

\* LogAndApply on a file system that does not fail.
LogAndApply(vs, edit0, manifest) == LogAndApplyWith(vs, edit0, manifest, "none")

\* -------------------------------------------------------------- Compaction
NoCompaction ==
    [level_ |-> -1, inputs0 |-> <<>>, inputs1 |-> <<>>, grandparents_ |-> <<>>,
     input_version_ |-> [l \in Levels |-> <<>>]]

\* The files of `files` whose user-key range meets [user_smallest, user_largest].
OverlappingFiles(files, user_smallest, user_largest) ==
    FilterSeq(files, {f \in SeqToSet(files) :
        /\ UserCompare(f.largest.user_key, user_smallest) >= 0
        /\ UserCompare(f.smallest.user_key, user_largest) <= 0})

RECURSIVE SmallestKeyOf(_, _)
SmallestKeyOf(files, smallest) ==
    IF files = <<>> THEN smallest
    ELSE SmallestKeyOf(Tail(files),
             IF InternalKeyCompare(Head(files).smallest, smallest) < 0
             THEN Head(files).smallest ELSE smallest)

RECURSIVE LargestKeyOf(_, _)
LargestKeyOf(files, largest) ==
    IF files = <<>> THEN largest
    ELSE LargestKeyOf(Tail(files),
             IF InternalKeyCompare(Head(files).largest, largest) > 0
             THEN Head(files).largest ELSE largest)

\* SetupOtherInputs: the level+1 files under the range of inputs_[0], the
\* grandparents under the whole range, and the new compact pointer.
SetupOtherInputs(vs, level, inputs0) ==
    LET files_ == vs.current_.files_
        smallest0 == SmallestKeyOf(Tail(inputs0), inputs0[1].smallest)
        largest0 == LargestKeyOf(Tail(inputs0), inputs0[1].largest)
        inputs1 == OverlappingFiles(files_[level + 1], smallest0.user_key, largest0.user_key)
        smallest == SmallestKeyOf(inputs1, smallest0)
        largest == LargestKeyOf(inputs1, largest0)
        grandparents == IF level + 2 < kNumLevels
                        THEN OverlappingFiles(files_[level + 2], smallest.user_key,
                                              largest.user_key)
                        ELSE <<>>
    IN  [c |-> [level_ |-> level, inputs0 |-> inputs0, inputs1 |-> inputs1,
                grandparents_ |-> grandparents, input_version_ |-> files_],
         versions_ |-> [vs EXCEPT !.compact_pointer_[level] = largest]]

\* The first file of the level after the compact pointer, else the first file.
RECURSIVE FirstAfterPointer(_, _, _)
FirstAfterPointer(files, i, pointer) ==
    IF i > Len(files) THEN files[1]
    ELSE IF pointer = NoKey \/ InternalKeyCompare(files[i].largest, pointer) > 0
    THEN files[i]
    ELSE FirstAfterPointer(files, i + 1, pointer)

\* PickCompaction when compaction_score_ >= 1 (no seek compaction is ever
\* requested: file_to_compact_ stays null).  For level 0 the inputs are the
\* level-0 files that overlap the range of the one file picked.
PickCompaction(vs) ==
    LET level == vs.current_.compaction_level_
        files == vs.current_.files_[level]
        f == FirstAfterPointer(files, 1, vs.compact_pointer_[level])
        inputs0 == IF level = 0
                   THEN OverlappingFiles(files, f.smallest.user_key, f.largest.user_key)
                   ELSE <<f>>
    IN  SetupOtherInputs(vs, level, inputs0)

SizeCompaction(version) ==
    version.compaction_score_.num >= version.compaction_score_.den

IsTrivialMove(c) ==
    /\ Len(c.inputs0) = 1
    /\ Len(c.inputs1) = 0
    /\ TotalFileSize(c.grandparents_) <= kMaxGrandParentOverlapBytes

AddInputDeletions(c, edit) ==
    [edit EXCEPT !.deleted_files_ = @
        \cup {<<c.level_, f.number>> : f \in SeqToSet(c.inputs0)}
        \cup {<<c.level_ + 1, f.number>> : f \in SeqToSet(c.inputs1)}]

\* IsBaseLevelForKey: no file of a level below level+1 has the key in its
\* range.  The keys arrive in ascending order, so the level_ptrs_ cursors
\* skip only files that lie wholly before the key.
IsBaseLevelForKey(c, user_key) ==
    \A lvl \in Levels : lvl >= c.level_ + 2 =>
        ~\E f \in SeqToSet(c.input_version_[lvl]) :
            /\ UserCompare(user_key, f.largest.user_key) <= 0
            /\ UserCompare(user_key, f.smallest.user_key) >= 0

\* TableCache::MayContain: the Bloom filter of the file; a key that is absent
\* passes it only on a false positive.
MayContain(tables, number, user_key, false_positive) ==
    \/ number \notin DOMAIN tables
    \/ \E e \in tables[number] : e.user_key = user_key
    \/ false_positive

\* ------------------------------------------------------- DoCompactionWork
\* ShouldStopBefore's scan of the grandparents for one key.
RECURSIVE AdvanceGrandparents(_, _, _, _, _)
AdvanceGrandparents(grandparents, index, overlapped, seen_key, key) ==
    IF index < Len(grandparents)
          /\ InternalKeyCompare(key, grandparents[index + 1].largest) > 0
    THEN AdvanceGrandparents(grandparents, index + 1,
             IF seen_key THEN overlapped + grandparents[index + 1].file_size
             ELSE overlapped, seen_key, key)
    ELSE [grandparent_index_ |-> index, overlapped_bytes_ |-> overlapped]

\* The state of the loop of DoCompactionWork before the first input entry.
CompactionStart(next_file_number) ==
    [has_current_user_key |-> FALSE, current_user_key |-> 0,
     last_sequence_for_key |-> kMaxSequenceNumber,
     has_builder |-> FALSE, builder |-> {}, output_file_number |-> 0,
     outputs |-> <<>>, next_file_number_ |-> next_file_number,
     grandparent_index_ |-> 0, seen_key_ |-> FALSE, overlapped_bytes_ |-> 0]

\* builder->Finish() and edit_.AddFile of the output being built.
FinishOutput(st) ==
    [st EXCEPT !.has_builder = FALSE, !.builder = {},
               !.outputs = Append(@, [meta |-> MakeFileMetaData(st.output_file_number,
                                                                 st.builder),
                                      entries |-> st.builder])]

\* The bytes TableBuilder::FileSize reports while a table is being built.
BuilderFileSize(S) == SumOver([e \in S |-> EntryFileBytes(e)], S)

\* ShouldStopBefore and, when it says so, the end of the output being built.
StopOutput(st, g) ==
    IF g.overlapped_bytes_ > kMaxGrandParentOverlapBytes
    THEN IF st.has_builder
         THEN FinishOutput([st EXCEPT !.grandparent_index_ = g.grandparent_index_,
                                      !.seen_key_ = TRUE, !.overlapped_bytes_ = 0])
         ELSE [st EXCEPT !.grandparent_index_ = g.grandparent_index_,
                         !.seen_key_ = TRUE, !.overlapped_bytes_ = 0]
    ELSE [st EXCEPT !.grandparent_index_ = g.grandparent_index_,
                    !.seen_key_ = TRUE, !.overlapped_bytes_ = g.overlapped_bytes_]

ShouldStopBefore(c, st, e) ==
    StopOutput(st, AdvanceGrandparents(c.grandparents_, st.grandparent_index_,
                                       st.overlapped_bytes_, st.seen_key_, e))

\* last_sequence_for_key as the drop rule reads it for the entry e.
LastSequenceForKey(st, e) ==
    IF ~st.has_current_user_key \/ UserCompare(e.user_key, st.current_user_key) # 0
    THEN kMaxSequenceNumber
    ELSE st.last_sequence_for_key

\* The drop rule: an entry under a newer entry of its key that every reader
\* sees, or a deletion that every reader sees and that hides nothing below.
DropEntry(c, st, e, smallest_snapshot, tables, false_positive) ==
    IF LastSequenceForKey(st, e) <= smallest_snapshot THEN TRUE
    ELSE IF /\ e.type = kTypeDeletion
            /\ e.sequence <= smallest_snapshot
            /\ IsBaseLevelForKey(c, e.user_key)
    THEN ~\E i \in DOMAIN c.inputs1 :
             MayContain(tables, c.inputs1[i].number, e.user_key, false_positive)
    ELSE FALSE

NoteKey(st, e) ==
    [st EXCEPT !.has_current_user_key = TRUE, !.current_user_key = e.user_key,
               !.last_sequence_for_key = e.sequence]

\* The output file is opened, under the next file number, when there is none.
OpenOutput(st) ==
    IF st.has_builder THEN st
    ELSE [st EXCEPT !.has_builder = TRUE, !.builder = {},
                    !.output_file_number = st.next_file_number_,
                    !.next_file_number_ = @ + 1]

CloseWhenFull(st, max_output_file_size) ==
    IF BuilderFileSize(st.builder) >= max_output_file_size THEN FinishOutput(st) ELSE st

AddEntry(st, e, max_output_file_size) ==
    CloseWhenFull([st EXCEPT !.builder = @ \cup {e}], max_output_file_size)

KeepOrDrop(c, st, e, smallest_snapshot, tables, false_positive, max_output_file_size) ==
    IF DropEntry(c, st, e, smallest_snapshot, tables, false_positive)
    THEN NoteKey(st, e)
    ELSE AddEntry(OpenOutput(NoteKey(st, e)), e, max_output_file_size)

\* One iteration of the loop, for the input entry e.
CompactionStep(c, st, e, smallest_snapshot, tables, false_positive, max_output_file_size) ==
    KeepOrDrop(c, ShouldStopBefore(c, st, e), e, smallest_snapshot, tables,
               false_positive, max_output_file_size)

RECURSIVE CompactionLoop(_, _, _, _, _, _, _)
CompactionLoop(c, st, input, smallest_snapshot, tables, false_positive, max_output_file_size) ==
    IF input = <<>> THEN st
    ELSE CompactionLoop(c,
             CompactionStep(c, st, Head(input), smallest_snapshot, tables,
                            false_positive, max_output_file_size),
             Tail(input), smallest_snapshot, tables, false_positive,
             max_output_file_size)

\* The merging iterator over the input tables of both levels.
\* A table that cannot be opened gives an error iterator, which is never Valid
\* and adds no entry to the merge.
CompactionInput(c, tables) ==
    SortedEntries(UNION {IF f.number \in DOMAIN tables THEN tables[f.number] ELSE {} :
                         f \in SeqToSet(c.inputs0) \cup SeqToSet(c.inputs1)})

\* The unlocked part of DoCompactionWork: the outputs it writes and the file
\* numbers it takes.
DoCompactionWork(c, tables, next_file_number, last_sequence, false_positive, max_output_file_size) ==
    LET st == CompactionLoop(c, CompactionStart(next_file_number),
                             CompactionInput(c, tables), last_sequence, tables,
                             false_positive, max_output_file_size)
    IN  IF st.has_builder THEN FinishOutput(st) ELSE st

RECURSIVE AddOutputs(_, _, _)
AddOutputs(edit, level, outputs) ==
    IF outputs = <<>> THEN edit
    ELSE AddOutputs(AddFile(edit, level, Head(outputs).meta), level, Tail(outputs))

\* The tables on disk after the outputs were written.
WithOutputs(tables, outputs) ==
    [n \in DOMAIN tables \cup {outputs[i].meta.number : i \in DOMAIN outputs} |->
        IF \E i \in DOMAIN outputs : outputs[i].meta.number = n
        THEN (CHOOSE o \in SeqToSet(outputs) : o.meta.number = n).entries
        ELSE tables[n]]

\* ================================================================ the state
VARIABLES
    db,          \* the fields of DBImpl
    memtables,   \* the MemTable objects alive, by the number of their log file
    disk,        \* the files of the database directory
    writer,      \* per client thread: its Writer and where it is in Write
    bg,          \* the background thread: where it is, and its compaction
    getter,      \* the reader: its last Get and what it returned
    iter,        \* the DB iterator, when one is open
    main,        \* the thread that opens, destroys and reopens the DB
    ops,         \* history: every Put/Delete issued, in order of issue
    last_batch,  \* history: the last batch a leader processed
    scenario     \* the options of the run and its bounds; never changes

vars == <<db, memtables, disk, writer, bg, getter, iter, main, ops, last_batch, scenario>>

NumLevelFiles(versions, level) == Len(versions.current_.files_[level])

\* VersionSet::NewFileNumber.
NewFileNumber(versions) == [versions EXCEPT !.next_file_number_ = @ + 1]

\* A MaybeScheduleCompaction that does not look at imm_.
MaybeScheduleCompactionForSize(d) ==
    IF d.bg_compaction_scheduled_ THEN TRUE
    ELSE IF d.shutting_down_ THEN FALSE
    ELSE SizeCompaction(d.versions_.current_)

\* A MaybeScheduleCompaction that does not look at the compaction score.
MaybeScheduleCompactionForImm(d) ==
    IF d.bg_compaction_scheduled_ THEN TRUE
    ELSE IF d.shutting_down_ THEN FALSE
    ELSE d.imm_ # 0

\* MaybeScheduleCompaction: the new value of bg_compaction_scheduled_.
MaybeScheduleCompaction(d) ==
    IF d.bg_compaction_scheduled_ THEN TRUE
    ELSE IF d.shutting_down_ THEN FALSE
    ELSE IF /\ d.imm_ = 0
            /\ ~SizeCompaction(d.versions_.current_)
            /\ d.versions_.current_.file_to_compact_ = 0
    THEN FALSE
    ELSE TRUE

\* A state of the engine as the operators below pass it around.
EngineState == [db |-> db, memtables |-> memtables, disk |-> disk]

\* The last branch of MakeRoomForWrite: a new log file, mem_ becomes imm_, a
\* fresh mem_, and the background thread is asked to flush.
SwitchMemTable(s) ==
    LET new_log_number == s.db.versions_.next_file_number_
        d1 == [s.db EXCEPT !.versions_ = NewFileNumber(@),
                           !.log_ = [number |-> new_log_number, status_ |-> "OK"],
                           !.logfile_number_ = new_log_number,
                           !.imm_ = s.db.mem_,
                           !.mem_ = new_log_number,
                           !.mem_refs_ = Ref(@, new_log_number)]
    IN  [db |-> [d1 EXCEPT !.bg_compaction_scheduled_ = MaybeScheduleCompaction(d1)],
         memtables |-> [n \in DOMAIN s.memtables \cup {new_log_number} |->
                           IF n = new_log_number THEN {} ELSE s.memtables[n]],
         disk |-> [s.disk EXCEPT !.logs =
                      [n \in DOMAIN @ \cup {new_log_number} |->
                          IF n \in DOMAIN @ THEN @[n] ELSE <<>>]]]

\* A MakeRoomForWrite that switches memtables without looking at imm_.
RECURSIVE MakeRoomForWriteNoWait(_, _)
MakeRoomForWriteNoWait(s, allow_delay) ==
    IF s.db.bg_error_ # "OK" THEN [outcome |-> "error", state |-> s]
    ELSE IF ApproximateMemoryUsage(s.memtables[s.db.mem_]) <= s.db.options_.write_buffer_size
    THEN [outcome |-> "ok", state |-> s]
    ELSE MakeRoomForWriteNoWait(SwitchMemTable(s), allow_delay)

\* A MakeRoomForWrite that does not look at kL0_StopWritesTrigger.
RECURSIVE MakeRoomForWriteNoStop(_, _)
MakeRoomForWriteNoStop(s, allow_delay) ==
    IF s.db.bg_error_ # "OK" THEN [outcome |-> "error", state |-> s]
    ELSE IF allow_delay /\ NumLevelFiles(s.db.versions_, 0) >= kL0_SlowdownWritesTrigger
    THEN [outcome |-> "sleep", state |-> s]
    ELSE IF ApproximateMemoryUsage(s.memtables[s.db.mem_]) <= s.db.options_.write_buffer_size
    THEN [outcome |-> "ok", state |-> s]
    ELSE IF s.db.imm_ # 0 THEN [outcome |-> "wait", state |-> s]
    ELSE MakeRoomForWriteNoStop(SwitchMemTable(s), allow_delay)

\* MakeRoomForWrite(false) from the top of its loop, up to the point where it
\* returns ("ok", "error") or releases the mutex ("sleep", "wait").
RECURSIVE MakeRoomForWrite(_, _)
MakeRoomForWrite(s, allow_delay) ==
    IF s.db.bg_error_ # "OK" THEN [outcome |-> "error", state |-> s]
    ELSE IF allow_delay /\ NumLevelFiles(s.db.versions_, 0) >= kL0_SlowdownWritesTrigger
    THEN [outcome |-> "sleep", state |-> s]
    ELSE IF ApproximateMemoryUsage(s.memtables[s.db.mem_]) <= s.db.options_.write_buffer_size
    THEN [outcome |-> "ok", state |-> s]
    ELSE IF s.db.imm_ # 0 THEN [outcome |-> "wait", state |-> s]
    ELSE IF NumLevelFiles(s.db.versions_, 0) >= kL0_StopWritesTrigger
    THEN [outcome |-> "wait", state |-> s]
    ELSE MakeRoomForWrite(SwitchMemTable(s), allow_delay)

\* BuildBatchGroup: how many writers from the front of writers_ form the batch.
RECURSIVE BatchLength(_, _, _, _)
BatchLength(w, writers, i, size) ==
    IF i > Len(writers) THEN i - 1
    ELSE LET size1 == size + 1 + ValueSize(w[writers[i]])
         IN  IF size1 > kMaxBatchSize THEN i - 1
             ELSE BatchLength(w, writers, i + 1, size1)

BuildBatchGroup(w, writers) == BatchLength(w, writers, 2, 1 + ValueSize(w[writers[1]]))

\* A batch numbered from last_sequence + 2.
BatchEntriesAhead(w, writers, n, last_sequence) ==
    [i \in 1..n |-> [user_key |-> w[writers[i]].key, sequence |-> last_sequence + i + 1,
                     type |-> w[writers[i]].type, value |-> w[writers[i]].value]]

\* A batch whose entries all carry the number last_sequence + 1.
BatchEntriesOneNumber(w, writers, n, last_sequence) ==
    [i \in 1..n |-> [user_key |-> w[writers[i]].key, sequence |-> last_sequence + 1,
                     type |-> w[writers[i]].type, value |-> w[writers[i]].value]]

\* The entries of the batch, numbered from last_sequence + 1.
BatchEntries(w, writers, n, last_sequence) ==
    [i \in 1..n |-> [user_key |-> w[writers[i]].key, sequence |-> last_sequence + i,
                     type |-> w[writers[i]].type, value |-> w[writers[i]].value]]

\* The WAL record of a batch: the count, then per entry the sequence, the
\* type and the length-prefixed key and value.
RecordSize(entries) == 4 + SumOver([i \in DOMAIN entries |->
                               8 + 1 + VarintLength(1) + 1
                                 + VarintLength(ValueSize(entries[i])) + ValueSize(entries[i])],
                               DOMAIN entries)

\* WalWriter::AddRecord and, when asked for, WalWriter::Sync.  `failure` says
\* where the file system fails: "none", "append" or "sync".  `synced` says
\* that Sync was called on the record and returned OK.
WalWrite(log, file, entries, need_sync, failure) ==
    IF log.status_ # "OK"
    THEN [log |-> log, file |-> file, status |-> log.status_, synced |-> FALSE]
    ELSE IF RecordSize(entries) > kMaxWalRecord
    THEN [log |-> log, file |-> file, status |-> "NotSupported", synced |-> FALSE]
    ELSE IF failure = "append"
    THEN [log |-> [log EXCEPT !.status_ = "IOError"], file |-> file, status |-> "IOError",
          synced |-> FALSE]
    ELSE IF need_sync /\ failure = "sync"
    THEN [log |-> [log EXCEPT !.status_ = "IOError"], file |-> Append(file, entries),
          status |-> "IOError", synced |-> FALSE]
    ELSE [log |-> log, file |-> Append(file, entries), status |-> "OK",
          synced |-> need_sync]

\* A leader that adds its own entry only.
MemTableAddFirst(table, entries) == table \cup {entries[1]}

\* MemTable::Add of the entries of a batch, in order.
MemTableAddAll(table, entries) == table \cup {entries[i] : i \in DOMAIN entries}

\* --------------------------------------------------------------- DBImpl::Write
\* A writer of the batch that is marked done and not notified.
MarkDone(ready, status) == [ready EXCEPT !.done = TRUE, !.status = status]

\* The signalling loop of Write for a writer of the batch other than the
\* leader: ready->status = s, ready->done = true, ready->cv.notify_one().
SignalDone(ready, status) == [ready EXCEPT !.done = TRUE, !.status = status, !.cv = TRUE]

\* A signalling loop that pops the leader only.
PopLeaderOnly(writers, n) == Tail(writers)

\* The signalling loop of Write: writers_ after the n writers of the batch are
\* popped from its front.
PopBatch(writers, n) == SubSeq(writers, n + 1, Len(writers))

\* A Write that adds the batch whatever the log said.
BatchAlwaysApplied(status) == TRUE

\* The test under which Write adds the batch to mem_ and advances the last
\* sequence number: the log accepted the record.
BatchLogged(status) == status = "OK"

\* A Write that syncs the log when its leader asked for it.
NeedSyncLeader(w, writers, n) == w[writers[1]].sync

\* need_sync of Write: some writer of the batch asked for a sync.
NeedSync(w, writers, n) == \E i \in 1..n : w[writers[i]].sync

\* The part of Write after MakeRoomForWrite, for the leader t: the batch is
\* built, logged and, when the log accepted it, added to mem_ under the next
\* sequence numbers; then every writer of the batch is popped and told the
\* status.  With `room_ok` false (MakeRoomForWrite failed) the leader alone is
\* popped.
CommitBatch(s, w, o, lb, t, room_ok, failure) ==
    LET d == s.db
        writers == d.writers_
        n == IF room_ok THEN BuildBatchGroup(w, writers) ELSE 1
        last_sequence == d.versions_.last_sequence_
        entries == BatchEntries(w, writers, n, last_sequence)
        need_sync == NeedSync(w, writers, n)
        wal == IF room_ok
               THEN WalWrite(d.log_, s.disk.logs[d.log_.number], entries, need_sync, failure)
               ELSE [log |-> d.log_, file |-> s.disk.logs[d.log_.number],
                     status |-> d.bg_error_, synced |-> FALSE]
        ok == BatchLogged(wal.status)
        batch == {writers[i] : i \in 1..n}
        opOf == [i \in 1..n |-> w[writers[i]].op]
    IN  [db |-> [d EXCEPT !.log_ = wal.log,
                          !.versions_.last_sequence_ = IF ok THEN last_sequence + n ELSE @,
                          !.writers_ = PopBatch(writers, n)],
         memtables |-> IF ok
                       THEN [s.memtables EXCEPT ![d.mem_] = MemTableAddAll(@, entries)]
                       ELSE s.memtables,
         disk |-> [s.disk EXCEPT !.logs[d.log_.number] = wal.file],
         writer |-> [x \in DOMAIN w |->
                        IF x = t
                        THEN [w[x] EXCEPT !.pc = "idle", !.done = TRUE, !.status = wal.status]
                        ELSE IF x \in batch
                        THEN SignalDone(w[x], wal.status)
                        ELSE IF n < Len(writers) /\ x = writers[n + 1]
                        THEN [w[x] EXCEPT !.cv = TRUE]
                        ELSE w[x]],
         ops |-> [j \in DOMAIN o |->
                     IF \E i \in 1..n : opOf[i] = j
                     THEN LET i == CHOOSE i \in 1..n : opOf[i] = j
                          IN  [o[j] EXCEPT
                                  !.sequence = IF ok THEN last_sequence + i ELSE 0,
                                  !.status = IF writers[i] = t THEN wal.status ELSE @]
                     ELSE o[j]],
         last_batch |-> [id |-> lb.id + 1, leader |-> t,
                         members |-> SubSeq(writers, 1, n), status |-> wal.status,
                         synced |-> wal.synced,
                         io_failures |-> IF room_ok /\ d.log_.status_ = "OK"
                                            /\ wal.log.status_ # "OK"
                                         THEN lb.io_failures + 1 ELSE lb.io_failures]]

\* Write from the point where the writer is at the front of writers_.
LeadWrite(s, w, o, lb, t, allow_delay, failure) ==
    LET r == MakeRoomForWrite(s, allow_delay)
    IN  IF r.outcome = "sleep"
        THEN [db |-> r.state.db, memtables |-> r.state.memtables, disk |-> r.state.disk,
              writer |-> [w EXCEPT ![t].pc = "sleep"], ops |-> o, last_batch |-> lb]
        ELSE IF r.outcome = "wait"
        THEN [db |-> [r.state.db EXCEPT !.bg_cv_ = FALSE],
              memtables |-> r.state.memtables, disk |-> r.state.disk,
              writer |-> [w EXCEPT ![t].pc = "room", ![t].allow_delay = allow_delay],
              ops |-> o, last_batch |-> lb]
        ELSE CommitBatch(r.state, w, o, lb, t, r.outcome = "ok", failure)

\* The reader before its first Get; the result of a Get that has returned is
\* forgotten when the next write is issued.
IdleGetter ==
    [pc |-> "idle", key |-> 0, mem |-> 0, imm |-> 0, version |-> 0, files_ |-> <<>>,
     seq |-> 0,
     status |-> "none", value |-> 0, sequence |-> 0,
     expected |-> [status |-> "none", value |-> 0, sequence |-> 0], acknowledged |-> 0]

Install(n) ==
    /\ db' = n.db
    /\ memtables' = n.memtables
    /\ disk' = n.disk
    /\ writer' = n.writer
    /\ ops' = n.ops
    /\ last_batch' = n.last_batch

Failures == IF scenario.failures THEN {"none", "append", "sync"} ELSE {"none"}
SyncChoices == IF scenario.sync THEN BOOLEAN ELSE {FALSE}
Types == IF Cardinality({j \in DOMAIN ops : ops[j].type = kTypeDeletion}) < scenario.max_deletes
         THEN {kTypeValue, kTypeDeletion} ELSE {kTypeValue}

\* Put of `value`, or Delete, up to the first point where Write waits or
\* returns.
WriteValue(t, type, key, value, sync, failure) ==
    /\ main.pc = "open"
    /\ writer[t].pc = "idle"
    /\ Len(ops) < scenario.max_writes
    /\ LET w1 == [writer EXCEPT ![t] = [pc |-> "waiting", key |-> key, type |-> type,
                                        value |-> value, sync |-> sync, done |-> FALSE,
                                        status |-> "none", op |-> Len(ops) + 1,
                                        allow_delay |-> TRUE, cv |-> FALSE]]
           o1 == Append(ops, [thread |-> t, key |-> key, type |-> type, value |-> value,
                              sequence |-> 0, status |-> "pending"])
           s1 == [EngineState EXCEPT !.db.writers_ = Append(@, t)]
       IN  IF s1.db.writers_[1] = t
           THEN /\ Install(LeadWrite(s1, w1, o1, last_batch, t, TRUE, failure))
           ELSE /\ failure = "none"
                /\ Install([db |-> s1.db, memtables |-> memtables, disk |-> disk,
                            writer |-> w1, ops |-> o1, last_batch |-> last_batch])
    /\ getter' = IF getter.pc = "reading" THEN getter ELSE IdleGetter
    /\ UNCHANGED <<bg, iter, main, scenario>>

\* Put of a value that no earlier Put has written, or Delete.
WriteBegin(t, type, key, sync, failure) ==
    WriteValue(t, type, key, IF type = kTypeValue THEN Len(ops) + 1 ELSE 0, sync, failure)

\* Put of a value of LargeValueSize bytes.
PutLarge(t, key) ==
    WriteValue(t, kTypeValue, key, LargeValueBase + Len(ops) + 1, FALSE, "none")

\* A writer waiting on its condition variable wakes: it was completed by a
\* leader, or it has reached the front and leads.
WriterWake(t, failure) ==
    /\ writer[t].pc = "waiting"
    /\ IF writer[t].done
       THEN /\ failure = "none"
            /\ writer' = [writer EXCEPT ![t].pc = "idle"]
            /\ ops' = [ops EXCEPT ![writer[t].op].status = writer[t].status]
            /\ UNCHANGED <<db, memtables, disk, last_batch>>
       ELSE /\ db.writers_ # <<>>
            /\ db.writers_[1] = t
            /\ Install(LeadWrite(EngineState, writer, ops, last_batch, t, TRUE, failure))
    /\ UNCHANGED <<bg, getter, iter, main, scenario>>

\* The leader returns from bg_cv_.wait or from its sleep inside
\* MakeRoomForWrite and goes round the loop again.
LeaderResume(t, failure) ==
    /\ writer[t].pc \in {"room", "sleep"}
    /\ Install(LeadWrite(EngineState, writer, ops, last_batch, t,
                         writer[t].pc = "room" /\ writer[t].allow_delay, failure))
    /\ UNCHANGED <<bg, getter, iter, main, scenario>>

\* ------------------------------------------------------ the background thread
\* MemTable::Unref: a MemTable lives while mem_, imm_, an open iterator or a
\* Get between its snapshot and its return holds a reference to it.
Referenced(d, it, g) ==
    {d.mem_, d.imm_} \cup (IF it.open THEN {it.mem, it.imm} ELSE {})
                     \cup (IF g.pc = "reading" THEN {g.mem, g.imm} ELSE {})

Unref(tables, live) == [n \in DOMAIN tables \cap live |-> tables[n]]

\* The end of PickCompaction: c->input_version_ = current_, and a reference
\* to it.
PickedVersion(vs) == [vs EXCEPT !.version_refs_ = Ref(@, vs.current_id_)]

\* Compaction::ReleaseInputs, and base->Unref() of the flush: the reference to
\* the Version `id` is given back.
ReleaseInputs(vs, id) == [vs EXCEPT !.version_refs_ = UnrefObject(@, id)]

\* BackgroundThreadMain from the top of its loop, with the mutex held, up to
\* the point where it releases the mutex: to wait for work ("wait"), to write
\* a level-0 table ("flush"), to merge tables ("compact"), or to exit.
RECURSIVE BackgroundThreadMain(_)
BackgroundThreadMain(s) ==
    LET d == s.db
        \* the end of BackgroundCall
        done == [d EXCEPT !.bg_compaction_scheduled_ = FALSE, !.bg_cv_ = TRUE]
        again == [done EXCEPT !.bg_compaction_scheduled_ = MaybeScheduleCompaction(done)]
    IN  IF d.shutting_down_ THEN [state |-> s, pc |-> "exited", c |-> NoCompaction]
        ELSE IF ~d.bg_compaction_scheduled_
        THEN [state |-> s, pc |-> "wait", c |-> NoCompaction]
        ELSE IF d.bg_error_ # "OK"
        THEN BackgroundThreadMain([s EXCEPT !.db = again])
        ELSE IF d.imm_ # 0
        THEN [state |-> [s EXCEPT !.db.versions_.version_refs_ =
                                      Ref(@, d.versions_.current_id_)],
              pc |-> "flush", c |-> NoCompaction]
        ELSE IF ~SizeCompaction(d.versions_.current_)
        THEN BackgroundThreadMain([s EXCEPT !.db = again])
        ELSE LET p == PickCompaction(d.versions_)
             IN  IF IsTrivialMove(p.c)
                 THEN LET f == p.c.inputs0[1]
                          edit == AddFile(DeleteFile(NewVersionEdit, p.c.level_, f.number),
                                          p.c.level_ + 1, f)
                          la == LogAndApply(PickedVersion(p.versions_), edit,
                                            s.disk.manifest)
                          d1 == [d EXCEPT !.versions_ =
                                              ReleaseInputs(la.versions_,
                                                            d.versions_.current_id_),
                                          !.bg_compaction_scheduled_ = FALSE,
                                          !.bg_cv_ = TRUE]
                          d2 == [d1 EXCEPT !.bg_compaction_scheduled_ =
                                               MaybeScheduleCompaction(d1)]
                      IN  BackgroundThreadMain([s EXCEPT !.db = d2,
                                                         !.disk.manifest = la.manifest])
                 ELSE [state |-> [s EXCEPT !.db.versions_ = PickedVersion(p.versions_)],
                       pc |-> "compact", c |-> p.c]

InstallBg(r) ==
    /\ db' = r.state.db
    /\ disk' = r.state.disk
    /\ bg' = [bg EXCEPT !.pc = r.pc, !.c = r.c,
                         !.version = IF r.pc \in {"flush", "compact"}
                                     THEN r.state.db.versions_.current_id_ ELSE 0,
                         !.smallest_snapshot = IF r.pc = "compact"
                                               THEN r.state.db.versions_.last_sequence_
                                               ELSE 0]
    /\ memtables' = Unref(r.state.memtables, Referenced(r.state.db, iter, getter))

\* The same after a step of the background thread in which I/O failed.
InstallBgFailure(r) ==
    /\ db' = r.state.db
    /\ disk' = r.state.disk
    /\ bg' = [bg EXCEPT !.pc = r.pc, !.c = r.c,
                         !.version = IF r.pc \in {"flush", "compact"}
                                     THEN r.state.db.versions_.current_id_ ELSE 0,
                         !.smallest_snapshot = IF r.pc = "compact"
                                               THEN r.state.db.versions_.last_sequence_
                                               ELSE 0,
                         !.failures = @ + 1, !.failed_at = Len(ops)]
    /\ memtables' = Unref(r.state.memtables, Referenced(r.state.db, iter, getter))

\* The background thread gets the mutex after bg_work_cv_.wait (or for the
\* first time).
BgWake ==
    /\ bg.pc = "wait"
    /\ db.shutting_down_ \/ db.bg_compaction_scheduled_
    /\ InstallBg(BackgroundThreadMain(EngineState))
    /\ UNCHANGED <<writer, getter, iter, main, ops, last_batch, scenario>>

\* WriteLevel0Table: the table built from the immutable memtable.
WriteLevel0Table(s) ==
    LET number == s.db.versions_.next_file_number_
        entries == s.memtables[s.db.imm_]
    IN  [state |-> [s EXCEPT !.db.versions_ = NewFileNumber(@),
                             !.disk.tables = WithOutputs(@,
                                 <<[meta |-> MakeFileMetaData(number, entries),
                                    entries |-> entries]>>)],
         edit |-> AddFile(NewVersionEdit, 0, MakeFileMetaData(number, entries))]

\* The flush branch of BackgroundCompaction from WriteLevel0Table on, the end
\* of BackgroundCall, and the thread's loop up to its next release of the mutex.
FlushApply(w) ==
    LogAndApply(ReleaseInputs(w.state.db.versions_, bg.version),
                SetLogNumber(SetPrevLogNumber(w.edit, 0), w.state.db.logfile_number_),
                disk.manifest)

\* A flush that gives up imm_ whatever LogAndApply returned.
FlushInstalledAlways(w, la) ==
    LET d0 == [w.state.db EXCEPT !.versions_ = la.versions_,
                                 !.bg_compaction_scheduled_ = FALSE, !.bg_cv_ = TRUE]
        d1 == [d0 EXCEPT !.imm_ = 0, !.mem_refs_ = UnrefObject(@, w.state.db.imm_)]
    IN  [w.state EXCEPT !.db = [d1 EXCEPT !.bg_compaction_scheduled_ =
                                              MaybeScheduleCompaction(d1)],
                        !.disk.manifest = la.manifest]

FlushInstalled(w, la) ==
    LET d0 == [w.state.db EXCEPT !.versions_ = la.versions_,
                                 !.bg_compaction_scheduled_ = FALSE, !.bg_cv_ = TRUE]
        d1 == IF la.status = "OK"
              THEN [d0 EXCEPT !.imm_ = 0, !.mem_refs_ = UnrefObject(@, w.state.db.imm_)]
              ELSE d0
    IN  [w.state EXCEPT !.db = [d1 EXCEPT !.bg_compaction_scheduled_ =
                                              MaybeScheduleCompaction(d1)],
                        !.disk.manifest = la.manifest]

\* (When the writer of the manifest has latched an error the flush takes the
\* path of BgFlushLogFail.)
BgFlushFinish ==
    /\ bg.pc = "flush"
    /\ db.versions_.descriptor_status_ = "OK"
    /\ \E w \in {WriteLevel0Table(EngineState)} :
       \E la \in {FlushApply(w)} :
       \E s \in {FlushInstalled(w, la)} :
       \E r \in {BackgroundThreadMain(s)} : InstallBg(r)
    /\ UNCHANGED <<writer, getter, iter, main, ops, last_batch, scenario>>

\* The flush branch of BackgroundCompaction when LogAndApply fails: the
\* manifest cannot be appended to or synced (`failure`), or its writer has
\* latched an earlier error.  The table is written, imm_ stays, and
\* BackgroundCall drops the status.
BgFlushLogFail(failure) ==
    /\ bg.pc = "flush"
    /\ bg.failures < MaxBgFailures
    /\ IF db.versions_.descriptor_status_ = "OK"
       THEN failure \in {"append", "sync"}
       ELSE failure = "none"
    /\ \E w \in {WriteLevel0Table(EngineState)} :
       \E la \in {LogAndApplyWith(ReleaseInputs(w.state.db.versions_, bg.version),
                                  SetLogNumber(SetPrevLogNumber(w.edit, 0),
                                               w.state.db.logfile_number_),
                                  disk.manifest, failure)} :
       \E s \in {FlushInstalled(w, la)} :
       \E r \in {BackgroundThreadMain(s)} : InstallBgFailure(r)
    /\ UNCHANGED <<writer, getter, iter, main, ops, last_batch, scenario>>

\* The flush branch of BackgroundCompaction when the table cannot be written:
\* builder->Finish() returns an I/O error, WriteLevel0Table removes the file
\* (its number stays taken), imm_ stays, and BackgroundCall drops the status
\* BackgroundCompaction returned.
BgFlushFail ==
    /\ bg.pc = "flush"
    /\ bg.failures < MaxBgFailures
    /\ LET d1 == [db EXCEPT !.versions_ = ReleaseInputs(NewFileNumber(@), bg.version),
                            !.bg_compaction_scheduled_ = FALSE, !.bg_cv_ = TRUE]
           d2 == [d1 EXCEPT !.bg_compaction_scheduled_ = MaybeScheduleCompaction(d1)]
       IN  \E s \in {[EngineState EXCEPT !.db = d2]} :
           \E r \in {BackgroundThreadMain(s)} : InstallBgFailure(r)
    /\ UNCHANGED <<writer, getter, iter, main, ops, last_batch, scenario>>

\* The tables TableCache::FindTable can open.
Openable(tables, unreadable) == [n \in DOMAIN tables \ unreadable |-> tables[n]]

\* DoCompactionWork from its merge on, CleanupCompaction, the end of
\* BackgroundCall, and the thread's loop up to its next release of the mutex.
\* When shutting_down_ is set the merge stops and nothing is installed.  The
\* status of the input iterator is not read: the entries of an input table
\* that cannot be opened are left out of the merge, and the edit is applied
\* all the same.  `taken` is the number of the output file when the step that
\* took it came before this one, and 0 when the numbers are taken here.
CompactionWork(false_positive, unreadable, taken) ==
    DoCompactionWork(bg.c, Openable(disk.tables, unreadable),
                     IF taken = 0 THEN db.versions_.next_file_number_ ELSE taken,
                     bg.smallest_snapshot, false_positive, db.options_.max_file_size)

CompactionApply(work, taken) ==
    IF db.shutting_down_
    THEN [versions_ |-> db.versions_, manifest |-> disk.manifest]
    ELSE LogAndApply(IF taken = 0
                     THEN [db.versions_ EXCEPT
                              !.next_file_number_ = work.next_file_number_]
                     ELSE db.versions_,
                     AddOutputs(AddInputDeletions(bg.c, NewVersionEdit),
                                bg.c.level_ + 1, work.outputs),
                     disk.manifest)

CompactionInstalled(work, la) ==
    LET d1 == [db EXCEPT !.versions_ = ReleaseInputs(la.versions_, bg.version),
                         !.bg_compaction_scheduled_ = FALSE, !.bg_cv_ = TRUE]
    IN  [db |-> [d1 EXCEPT !.bg_compaction_scheduled_ = MaybeScheduleCompaction(d1)],
         memtables |-> memtables,
         disk |-> [disk EXCEPT !.tables = IF db.shutting_down_ THEN @
                                          ELSE WithOutputs(@, work.outputs),
                               !.manifest = la.manifest]]

BgCompactFinish(false_positive) ==
    /\ bg.pc = "compact"
    /\ \E work \in {CompactionWork(false_positive, {}, 0)} :
       \E la \in {CompactionApply(work, 0)} :
       \E s \in {CompactionInstalled(work, la)} :
       \E r \in {BackgroundThreadMain(s)} : InstallBg(r)
    /\ UNCHANGED <<writer, getter, iter, main, ops, last_batch, scenario>>

\* DoCompactionWork when its loop reads shutting_down_ as set after it has
\* merged `merged` input entries: the loop stops there.
CompactionAborted(false_positive, merged) ==
    CompactionLoop(bg.c, CompactionStart(db.versions_.next_file_number_),
                   SubSeq(CompactionInput(bg.c, disk.tables), 1, merged),
                   bg.smallest_snapshot, disk.tables, false_positive,
                   db.options_.max_file_size)

\* The file of the output that was being built when the loop stopped:
\* builder->Abandon() and delete outfile close it and leave it in the
\* directory, with what had been written to it.
AbandonedOutputs(st) ==
    IF st.has_builder
    THEN <<[meta |-> MakeFileMetaData(st.output_file_number, st.builder),
            entries |-> st.builder]>>
    ELSE <<>>

\* The end of DoCompactionWork with the status "Deleting DB during
\* compaction": LogAndApply is not called, the file numbers stay taken, and
\* the files written stay where they are; then CleanupCompaction,
\* ReleaseInputs and the end of BackgroundCall.
AbortInstalled(st) ==
    LET d1 == [db EXCEPT !.versions_ =
                             ReleaseInputs([@ EXCEPT !.next_file_number_ =
                                                         st.next_file_number_],
                                           bg.version),
                         !.bg_compaction_scheduled_ = FALSE, !.bg_cv_ = TRUE]
    IN  [db |-> [d1 EXCEPT !.bg_compaction_scheduled_ = MaybeScheduleCompaction(d1)],
         memtables |-> memtables,
         disk |-> [disk EXCEPT !.tables =
                      WithOutputs(@, st.outputs \o AbandonedOutputs(st))]]

\* ~DBImpl sets shutting_down_ while DoCompactionWork is merging.
BgCompactAbort(false_positive, merged) ==
    /\ bg.pc = "compact"
    /\ db.shutting_down_
    /\ merged \in 1..Len(CompactionInput(bg.c, disk.tables))
    /\ \E st \in {CompactionAborted(false_positive, merged)} :
       \E s \in {AbortInstalled(st)} :
       \E r \in {BackgroundThreadMain(s)} : InstallBg(r)
    /\ UNCHANGED <<writer, getter, iter, main, ops, last_batch, scenario>>

\* DoCompactionWork when the file of its first output cannot be created
\* (!outfile->is_open()): the number taken for it stays taken, the loop breaks
\* with an IOError and LogAndApply is not called.
CompactionOpenFailed ==
    [CompactionStart(db.versions_.next_file_number_) EXCEPT !.next_file_number_ = @ + 1]

BgCompactOpenFail ==
    /\ bg.pc = "compact"
    /\ ~db.shutting_down_
    /\ bg.failures < MaxCompactFailures
    /\ \E st \in {CompactionOpenFailed} :
       \E s \in {AbortInstalled(st)} :
       \E r \in {BackgroundThreadMain(s)} : InstallBgFailure(r)
    /\ UNCHANGED <<writer, getter, iter, main, ops, last_batch, scenario>>

\* The same when Table::Open fails for the input table `number`.
BgCompactReadError(number) ==
    /\ bg.pc = "compact"
    /\ bg.failures < MaxBgFailures
    /\ number \in {f.number : f \in SeqToSet(bg.c.inputs0) \cup SeqToSet(bg.c.inputs1)}
    /\ \E work \in {CompactionWork(FALSE, {number}, 0)} :
       \E la \in {CompactionApply(work, 0)} :
       \E s \in {CompactionInstalled(work, la)} :
       \E r \in {BackgroundThreadMain(s)} : InstallBgFailure(r)
    /\ UNCHANGED <<writer, getter, iter, main, ops, last_batch, scenario>>

\* The outputs DoCompactionWork will write for the compaction picked.
CompactionOutputs(false_positive) ==
    DoCompactionWork(bg.c, disk.tables, 1, bg.smallest_snapshot, false_positive,
                     db.options_.max_file_size).outputs

\* versions_->NewFileNumber() in DoCompactionWork, which runs after
\* mutex_.unlock(): next_file_number_++ is a read and a write of the counter,
\* and a writer that holds the mutex can take a number between the two.
BgCompactLoadNumber ==
    /\ bg.pc = "compact"
    /\ bg.loaded = 0
    /\ \E false_positive \in BOOLEAN : Len(CompactionOutputs(false_positive)) = 1
    /\ bg' = [bg EXCEPT !.loaded = db.versions_.next_file_number_]
    /\ UNCHANGED <<db, memtables, disk, writer, getter, iter, main, ops, last_batch, scenario>>

BgCompactStoreNumber ==
    /\ bg.pc = "compact"
    /\ bg.loaded # 0
    /\ bg.output_file_number = 0
    /\ db' = [db EXCEPT !.versions_.next_file_number_ = bg.loaded + 1]
    /\ bg' = [bg EXCEPT !.output_file_number = bg.loaded]
    /\ UNCHANGED <<memtables, disk, writer, getter, iter, main, ops, last_batch, scenario>>

InstallBgOutput(r) ==
    /\ db' = r.state.db
    /\ disk' = r.state.disk
    /\ bg' = [bg EXCEPT !.pc = r.pc, !.c = r.c,
                         !.version = IF r.pc \in {"flush", "compact"}
                                     THEN r.state.db.versions_.current_id_ ELSE 0,
                         !.smallest_snapshot = IF r.pc = "compact"
                                               THEN r.state.db.versions_.last_sequence_
                                               ELSE 0,
                         !.loaded = 0, !.output_file_number = 0]
    /\ memtables' = Unref(r.state.memtables, Referenced(r.state.db, iter, getter))

\* The rest of DoCompactionWork once the number of its output file is taken.
BgCompactInstall(false_positive) ==
    /\ bg.pc = "compact"
    /\ bg.output_file_number # 0
    /\ Len(CompactionOutputs(false_positive)) = 1
    /\ \E work \in {CompactionWork(false_positive, {}, bg.output_file_number)} :
       \E la \in {CompactionApply(work, bg.output_file_number)} :
       \E s \in {CompactionInstalled(work, la)} :
       \E r \in {BackgroundThreadMain(s)} : InstallBgOutput(r)
    /\ UNCHANGED <<writer, getter, iter, main, ops, last_batch, scenario>>

\* ------------------------------------------------------------------ DBImpl::Get
\* What the history of writes says a reader should find under key k: the
\* committed write to k with the largest sequence number.
Expected(o, k) ==
    LET S == {j \in DOMAIN o : o[j].key = k /\ o[j].sequence > 0}
    IN  IF S = {} THEN [status |-> "NotFound", value |-> 0, sequence |-> 0]
        ELSE LET j == CHOOSE j \in S : \A i \in S : o[i].sequence <= o[j].sequence
             IN  [status |-> IF o[j].type = kTypeValue THEN "OK" ELSE "NotFound",
                  value |-> o[j].value, sequence |-> o[j].sequence]

\* The largest sequence number among the writes to k that have returned OK.
Acknowledged(o, k) ==
    LET S == {o[j].sequence : j \in {i \in DOMAIN o : o[i].key = k /\ o[i].status = "OK"}}
    IN  IF S = {} THEN 0 ELSE CHOOSE x \in S : \A y \in S : y <= x

\* The locked head of Get: the snapshot of mem_, imm_, the current Version and
\* the last sequence number.
GetSnapshot(d, o, k) ==
    [IdleGetter EXCEPT !.pc = "reading", !.key = k, !.mem = d.mem_, !.imm = d.imm_,
                       !.version = d.versions_.current_id_,
                       !.files_ = d.versions_.current_.files_,
                       !.seq = d.versions_.last_sequence_,
                       !.expected = Expected(o, k),
                       !.acknowledged = Acknowledged(o, k)]

\* The unlocked body of Get and its return.
GetRead(g, tables, files) ==
    LET r == LookupIn(tables[g.mem], g.imm # 0,
                      IF g.imm # 0 THEN tables[g.imm] ELSE {},
                      g.files_, files, g.seq, g.key)
    IN  [g EXCEPT !.pc = "idle", !.mem = 0, !.imm = 0, !.version = 0, !.files_ = <<>>,
                  !.status = r.status, !.value = r.value, !.sequence = r.sequence]

\* Get, by a client with no write of its own in progress.
Get(k) ==
    /\ main.pc = "open"
    /\ getter.pc = "idle"
    /\ \A t \in Writers : writer[t].pc = "idle"
    /\ getter' = GetRead(GetSnapshot(db, ops, k), memtables, disk.tables)
    /\ UNCHANGED <<db, memtables, disk, writer, bg, iter, main, ops, last_batch, scenario>>

\* A Get or NewIterator that takes no reference to imm.
TakeReferencesNoImm(d) ==
    [d EXCEPT !.mem_refs_ = Ref(@, d.mem_),
              !.versions_.version_refs_ = Ref(@, d.versions_.current_id_)]

\* The head of Get and of NewIterator: mem->Ref(), imm->Ref() when there is
\* one, current->Ref(), with the mutex held.
TakeReferences(d) ==
    [d EXCEPT !.mem_refs_ = Ref(Ref(@, d.mem_), d.imm_),
              !.versions_.version_refs_ = Ref(@, d.versions_.current_id_)]

\* The end of Get and ~DBIterator: the three Unref, with the mutex held.
DropReferences(d, mem, imm, version) ==
    [d EXCEPT !.mem_refs_ = UnrefObject(UnrefObject(@, mem), imm),
              !.versions_.version_refs_ = UnrefObject(@, version)]

\* Get up to the point where it releases the mutex, by a reader that runs
\* beside the writers and the background thread.
GetBegin(k) ==
    /\ main.pc = "open"
    /\ getter.pc = "idle"
    /\ getter' = GetSnapshot(db, ops, k)
    /\ db' = TakeReferences(db)
    /\ UNCHANGED <<memtables, disk, writer, bg, iter, main, ops, last_batch, scenario>>

\* The rest of that Get: the lookups without the mutex, then the Unref of what
\* it had referenced.
GetEnd ==
    /\ getter.pc = "reading"
    /\ getter' = GetRead(getter, memtables, disk.tables)
    /\ db' = DropReferences(db, getter.mem, getter.imm, getter.version)
    /\ memtables' = Unref(memtables, Referenced(db, iter, getter'))
    /\ UNCHANGED <<disk, writer, bg, iter, main, ops, last_batch, scenario>>

\* --------------------------------------- Write, with its WAL I/O as a step
\* std::unique_lock<std::mutex> l(mutex_) of Write is held from its first line
\* to its return, but for the sleep and the waits: log_->AddRecord and
\* log_->Sync run with mutex_ held.
MutexHeld == \E t \in Writers : writer[t].pc = "logging"

\* Put or Delete by a thread that becomes the leader and finds room: up to its
\* call of log_->AddRecord.
WalBegin(t, type, key, sync) ==
    /\ main.pc = "open"
    /\ writer[t].pc = "idle"
    /\ Len(ops) < scenario.max_writes
    /\ ~MutexHeld
    /\ LET value == IF type = kTypeValue THEN Len(ops) + 1 ELSE 0
           w1 == [writer EXCEPT ![t] = [pc |-> "logging", key |-> key, type |-> type,
                                        value |-> value, sync |-> sync, done |-> FALSE,
                                        status |-> "none", op |-> Len(ops) + 1,
                                        allow_delay |-> FALSE, cv |-> FALSE]]
           o1 == Append(ops, [thread |-> t, key |-> key, type |-> type, value |-> value,
                              sequence |-> 0, status |-> "pending"])
           s1 == [EngineState EXCEPT !.db.writers_ = Append(@, t)]
       IN  /\ s1.db.writers_[1] = t
           /\ \E r \in {MakeRoomForWrite(s1, TRUE)} :
                  /\ r.outcome = "ok"
                  /\ Install([db |-> r.state.db, memtables |-> r.state.memtables,
                              disk |-> r.state.disk, writer |-> w1, ops |-> o1,
                              last_batch |-> last_batch])
    /\ getter' = IF getter.pc = "reading" THEN getter ELSE IdleGetter
    /\ UNCHANGED <<bg, iter, main, scenario>>

\* AddRecord and Sync return, and Write goes on to its own return.
WalEnd(t, failure) ==
    /\ writer[t].pc = "logging"
    /\ Install(LeadWrite(EngineState, writer, ops, last_batch, t, FALSE, failure))
    /\ UNCHANGED <<bg, getter, iter, main, scenario>>

\* ------------------------------------------------- DB::Open and ~DBImpl
\* DBImpl::DBImpl followed by the body of DB::Open, on the directory `files`:
\* Recover() reads nothing, the log file gets the first file number, and the
\* first edit is written to the manifest.
OpenDB(options, files) ==
    LET vs0 == NewVersionSet
        new_log_number == vs0.next_file_number_
        la == LogAndApply(NewFileNumber(vs0), SetLogNumber(NewVersionEdit, new_log_number),
                          files.manifest)
        d0 == [options_ |-> options, mem_ |-> new_log_number, imm_ |-> 0,
               log_ |-> [number |-> new_log_number, status_ |-> "OK"],
               logfile_number_ |-> new_log_number, versions_ |-> la.versions_,
               writers_ |-> <<>>, bg_compaction_scheduled_ |-> FALSE,
               shutting_down_ |-> FALSE, bg_error_ |-> "OK", bg_cv_ |-> FALSE,
               mem_refs_ |-> Ref(<<>>, new_log_number)]
    IN  [db |-> [d0 EXCEPT !.bg_compaction_scheduled_ = MaybeScheduleCompaction(d0)],
         memtables |-> [n \in {new_log_number} |-> {}],
         disk |-> [files EXCEPT !.manifest = la.manifest,
                                !.logs = [n \in DOMAIN @ \cup {new_log_number} |->
                                             IF n \in DOMAIN @ THEN @[n] ELSE <<>>]]]

EmptyDirectory == [tables |-> <<>>, logs |-> <<>>, manifest |-> <<>>]

\* `cv` is the writer's condition variable: a notify_one has been sent to it
\* since it enqueued.  db.bg_cv_ is the same for bg_cv_: a notify_all has been
\* sent since the leader began to wait on it.  A wait may also return without
\* a notification (a spurious wake-up), so the flags guard no action; only a
\* notified wait is certain to return.
IdleWriter ==
    [pc |-> "idle", key |-> 0, type |-> 0, value |-> 0, sync |-> FALSE, done |-> FALSE,
     status |-> "none", op |-> 0, allow_delay |-> TRUE, cv |-> FALSE]

NoIterator ==
    [open |-> FALSE, mem |-> 0, imm |-> 0, version |-> 0, files_ |-> <<>>,
     sequence_ |-> 0,
     mem_pos |-> NoEntry, rest_pos |-> NoEntry, positioned |-> FALSE, yielded |-> <<>>,
     at_creation |-> {}, direction_ |-> "kForward"]

\* The background thread before its first run.  `failures` and `failed_at` are
\* history: how many background runs have failed, and how many writes had been
\* issued when the last of them failed.
\* `version` names the Version the thread holds a reference to while it writes
\* a table: base in the flush, input_version_ in a compaction.
\* `loaded` and `output_file_number` are the two halves of the
\* next_file_number_++ that DoCompactionWork runs without the mutex: the value
\* it read, and the number it took once it has written the counter back.
IdleBackground ==
    [pc |-> "wait", c |-> NoCompaction, smallest_snapshot |-> 0, failures |-> 0,
     failed_at |-> 0, loaded |-> 0, output_file_number |-> 0, version |-> 0]

DefaultOptions(write_buffer_size) ==
    [write_buffer_size |-> write_buffer_size, max_file_size |-> kDefaultMaxFileSize]

\* The state after DB::Open with the given options on an empty directory.
InitWithOptions(sc, options) ==
    LET o == OpenDB(options, EmptyDirectory)
    IN  /\ db = o.db
        /\ memtables = o.memtables
        /\ disk = o.disk
        /\ writer = [t \in Writers |-> IdleWriter]
        /\ bg = IdleBackground
        /\ getter = IdleGetter
        /\ iter = NoIterator
        /\ main = [pc |-> "open", opens |-> 1, ops_at_open |-> 0]
        /\ ops = <<>>
        /\ last_batch = [id |-> 0, leader |-> 0, members |-> <<>>, status |-> "none",
                         synced |-> FALSE, io_failures |-> 0]
        /\ scenario = sc

InitWith(sc, write_buffer_size) == InitWithOptions(sc, DefaultOptions(write_buffer_size))

\* ---------------------------------------------------------------- DBIterator
\* The first entry of S after e in iteration order, or NoEntry.
EntryAfter(S, e) ==
    IF {x \in S : InternalKeyCompare(x, e) > 0} = {} THEN NoEntry
    ELSE SmallestOf({x \in S : InternalKeyCompare(x, e) > 0})

FirstEntry(S) == IF S = {} THEN NoEntry ELSE SmallestOf(S)

\* The children of the merging iterator other than the one over mem_: the
\* immutable memtable and the tables of the Version.  None of them changes.
RestEntries(it, tables, files) ==
    (IF it.imm # 0 THEN tables[it.imm] ELSE {})
        \cup UNION {files[f.number] :
                    f \in UNION {SeqToSet(it.files_[l]) : l \in Levels}}

\* MergingIterator::FindSmallest over the two cursors, or FindLargest when
\* the iterator moves backwards.
MemIsCurrent(it) ==
    /\ it.mem_pos # NoEntry
    /\ \/ it.rest_pos = NoEntry
       \/ IF it.direction_ = "kForward"
          THEN InternalKeyCompare(it.mem_pos, it.rest_pos) < 0
          ELSE InternalKeyCompare(it.mem_pos, it.rest_pos) > 0

Current(it) == IF MemIsCurrent(it) THEN it.mem_pos ELSE it.rest_pos

Valid(it) == Current(it) # NoEntry

\* MergingIterator::Next: the current child moves on; the cursor over mem_
\* reads the skip list as it is now.
MergingNext(it, tables, files) ==
    IF MemIsCurrent(it)
    THEN [it EXCEPT !.mem_pos = EntryAfter(tables[it.mem], it.mem_pos)]
    ELSE [it EXCEPT !.rest_pos = EntryAfter(RestEntries(it, tables, files), it.rest_pos)]

\* An iterator that does not look at the sequence number.
SequenceAlwaysVisible(sequence, snapshot) == TRUE

\* The test of FindNextUserEntry that an entry is within the iterator's snapshot.
SequenceVisible(sequence, snapshot) == sequence <= snapshot

\* FindNextUserEntry: saved_key is a local of the call and starts empty
\* (0 here, which no user key equals).
RECURSIVE FindNextUserEntry(_, _, _, _, _)
FindNextUserEntry(it, tables, files, skipping, saved_key) ==
    IF ~Valid(it) THEN it
    ELSE IF ~SequenceVisible(Current(it).sequence, it.sequence_)
    THEN FindNextUserEntry(MergingNext(it, tables, files), tables, files, skipping, saved_key)
    ELSE IF skipping /\ UserCompare(Current(it).user_key, saved_key) = 0
    THEN FindNextUserEntry(MergingNext(it, tables, files), tables, files, skipping, saved_key)
    ELSE IF Current(it).type = kTypeDeletion
    THEN FindNextUserEntry(MergingNext(it, tables, files), tables, files, TRUE,
                           Current(it).user_key)
    ELSE it

\* The entry the iterator stands on is handed to the caller.
Yield(it) == IF Valid(it) THEN [it EXCEPT !.yielded = Append(@, Current(it))] ELSE it

\* History: the entries in mem_, imm_ and the tables of the current Version.
EntriesReachable(d, tables, files) ==
    tables[d.mem_] \cup (IF d.imm_ # 0 THEN tables[d.imm_] ELSE {})
        \cup UNION {files[f.number] :
                    f \in UNION {SeqToSet(d.versions_.current_.files_[l]) : l \in Levels}}

NewIterator ==
    /\ main.pc = "open"
    /\ ~iter.open
    /\ iter' = [NoIterator EXCEPT !.open = TRUE, !.mem = db.mem_, !.imm = db.imm_,
                                  !.version = db.versions_.current_id_,
                                  !.files_ = db.versions_.current_.files_,
                                  !.sequence_ = db.versions_.last_sequence_,
                                  !.at_creation = EntriesReachable(db, memtables, disk.tables)]
    /\ db' = TakeReferences(db)
    /\ UNCHANGED <<memtables, disk, writer, bg, getter, main, ops, last_batch, scenario>>

SeekToFirst ==
    /\ iter.open
    /\ ~iter.positioned
    /\ iter' = Yield(FindNextUserEntry(
                   [iter EXCEPT !.positioned = TRUE,
                                !.mem_pos = FirstEntry(memtables[iter.mem]),
                                !.rest_pos = FirstEntry(RestEntries(iter, memtables,
                                                                    disk.tables)),
                                !.yielded = <<>>],
                   memtables, disk.tables, FALSE, 0))
    /\ UNCHANGED <<db, memtables, disk, writer, bg, getter, main, ops, last_batch, scenario>>

IterNext ==
    /\ iter.open
    /\ iter.positioned
    /\ iter.direction_ = "kForward"
    /\ Valid(iter)
    /\ iter' = Yield(FindNextUserEntry(MergingNext(iter, memtables, disk.tables),
                                       memtables, disk.tables, TRUE, 0))
    /\ UNCHANGED <<db, memtables, disk, writer, bg, getter, main, ops, last_batch, scenario>>

\* The last entry of S before e in iteration order, or NoEntry.
EntryBefore(S, e) ==
    IF {x \in S : InternalKeyCompare(x, e) < 0} = {} THEN NoEntry
    ELSE LargestOf({x \in S : InternalKeyCompare(x, e) < 0})

LastEntry(S) == IF S = {} THEN NoEntry ELSE LargestOf(S)

\* MergingIterator::Prev while moving backwards: the current child steps back.
MergingPrev(it, tables, files) ==
    IF MemIsCurrent(it)
    THEN [it EXCEPT !.mem_pos = EntryBefore(tables[it.mem], it.mem_pos)]
    ELSE [it EXCEPT !.rest_pos = EntryBefore(RestEntries(it, tables, files), it.rest_pos)]

\* FindPrevUserEntry: back to the first entry within the snapshot that is not
\* a deletion.
RECURSIVE FindPrevUserEntry(_, _, _)
FindPrevUserEntry(it, tables, files) ==
    IF ~Valid(it) THEN it
    ELSE IF SequenceVisible(Current(it).sequence, it.sequence_)
            /\ Current(it).type # kTypeDeletion
    THEN it
    ELSE FindPrevUserEntry(MergingPrev(it, tables, files), tables, files)

SeekToLast ==
    /\ iter.open
    /\ ~iter.positioned
    /\ iter' = Yield(FindPrevUserEntry(
                   [iter EXCEPT !.positioned = TRUE, !.direction_ = "kReverse",
                                !.mem_pos = LastEntry(memtables[iter.mem]),
                                !.rest_pos = LastEntry(RestEntries(iter, memtables,
                                                                   disk.tables)),
                                !.yielded = <<>>],
                   memtables, disk.tables))
    /\ UNCHANGED <<db, memtables, disk, writer, bg, getter, main, ops, last_batch, scenario>>

\* DBIterator::Prev after SeekToLast or Prev.
IterPrev ==
    /\ iter.open
    /\ iter.positioned
    /\ iter.direction_ = "kReverse"
    /\ Valid(iter)
    /\ iter' = Yield(FindPrevUserEntry(MergingPrev(iter, memtables, disk.tables),
                                       memtables, disk.tables))
    /\ UNCHANGED <<db, memtables, disk, writer, bg, getter, main, ops, last_batch, scenario>>

\* ~DBIterator.
DeleteIterator ==
    /\ iter.open
    /\ iter.positioned
    /\ ~Valid(iter)
    /\ iter' = [NoIterator EXCEPT !.yielded = iter.yielded, !.sequence_ = iter.sequence_,
                                  !.at_creation = iter.at_creation]
    /\ db' = DropReferences(db, iter.mem, iter.imm, iter.version)
    /\ memtables' = Unref(memtables, Referenced(db, iter', getter))
    /\ UNCHANGED <<disk, writer, bg, getter, main, ops, last_batch, scenario>>

\* ~DBImpl, first block: shutting_down_ is set and the background thread is
\* notified.  No call into the DB is in progress.
DtorBegin ==
    /\ main.pc = "open"
    /\ \A t \in Writers : writer[t].pc = "idle"
    /\ getter.pc = "idle"
    /\ ~iter.open
    /\ db' = [db EXCEPT !.shutting_down_ = TRUE]
    /\ main' = [main EXCEPT !.pc = "join"]
    /\ UNCHANGED <<memtables, disk, writer, bg, getter, iter, ops, last_batch, scenario>>

\* ~DBImpl: bg_thread_.join() returns once the background thread has exited.
DtorJoin ==
    /\ main.pc = "join"
    /\ bg.pc = "exited"
    /\ main' = [main EXCEPT !.pc = "wait"]
    /\ UNCHANGED <<db, memtables, disk, writer, bg, getter, iter, ops, last_batch, scenario>>

\* ~DBImpl: the loop `while (bg_compaction_scheduled_) bg_cv_.wait(l)` is left,
\* and the memtables and the VersionSet are released.
DtorFinish ==
    /\ main.pc = "wait"
    /\ ~db.bg_compaction_scheduled_
    /\ main' = [main EXCEPT !.pc = "closed"]
    /\ db' = DropReferences(db, db.mem_, db.imm_, db.versions_.current_id_)
    /\ memtables' = <<>>
    /\ getter' = IdleGetter
    /\ UNCHANGED <<disk, writer, bg, iter, ops, last_batch, scenario>>

\* The process dies: what is in memory is gone, the files stay as they are.
Crash ==
    /\ main.pc = "open"
    /\ main' = [main EXCEPT !.pc = "crashed"]
    /\ memtables' = <<>>
    /\ writer' = [t \in Writers |-> IdleWriter]
    /\ bg' = [IdleBackground EXCEPT !.pc = "exited"]
    /\ getter' = IdleGetter
    /\ iter' = NoIterator
    /\ UNCHANGED <<db, disk, ops, last_batch, scenario>>

\* DB::Open on the directory the previous DBImpl left.
Reopen ==
    /\ main.pc \in {"closed", "crashed"}
    /\ main.opens < MaxOpens
    /\ LET o == OpenDB(db.options_, disk)
       IN  /\ db' = o.db
           /\ memtables' = o.memtables
           /\ disk' = o.disk
    /\ writer' = [t \in Writers |-> IdleWriter]
    /\ bg' = IdleBackground
    /\ main' = [pc |-> "open", opens |-> main.opens + 1, ops_at_open |-> Len(ops)]
    /\ UNCHANGED <<getter, iter, ops, last_batch, scenario>>

\* ------------------------------------------------- one client, no failures
InitSeq ==
    InitWith([name |-> "seq", max_writes |-> MaxWritesSeq, max_deletes |-> MaxDeletesSeq,
              failures |-> FALSE, sync |-> FALSE], WriteBufferSeq)

NextSeq ==
    \/ \E type \in Types, key \in Keys : WriteBegin(1, type, key, FALSE, "none")
    \/ LeaderResume(1, "none")
    \/ \E key \in Keys : Get(key)
    \/ BgWake
    \/ BgFlushFinish
    \/ \E false_positive \in BOOLEAN : BgCompactFinish(false_positive)

SpecSeq == InitSeq /\ [][NextSeq]_vars

\* C1: a Get returns the value of the most recent Put of the key, or NotFound
\* when the key was never written or a Delete came last.
C1_GetReturnsLatest ==
    (getter.pc = "idle" /\ getter.key # 0) =>
        /\ getter.status = getter.expected.status
        /\ getter.value = getter.expected.value

\* ------------------------------------------ one client and an iterator
InitIter ==
    InitWith([name |-> "iter", max_writes |-> MaxWritesIter, max_deletes |-> MaxDeletesIter,
              failures |-> FALSE, sync |-> FALSE], WriteBufferSmall)

NextIter ==
    \/ \E type \in Types, key \in Keys : WriteBegin(1, type, key, FALSE, "none")
    \/ LeaderResume(1, "none")
    \/ BgWake
    \/ BgFlushFinish
    \/ \E false_positive \in BOOLEAN : BgCompactFinish(false_positive)
    \/ NewIterator
    \/ SeekToFirst
    \/ IterNext
    \/ DeleteIterator

SpecIter == InitIter /\ [][NextIter]_vars

\* The pairs (key, value) a reader with the given snapshot should find, by
\* ascending key: the keys whose last write up to the snapshot is a Put.
RECURSIVE LiveFrom(_, _, _)
LiveFrom(o, snapshot, k) ==
    IF k > NumKeys THEN <<>>
    ELSE LET e == Expected(SelectSeq(o, LAMBDA x : x.sequence <= snapshot), k)
         IN  (IF e.status = "OK" THEN <<[user_key |-> k, value |-> e.value]>> ELSE <<>>)
                 \o LiveFrom(o, snapshot, k + 1)

YieldedPairs(y) == [i \in DOMAIN y |-> [user_key |-> y[i].user_key, value |-> y[i].value]]

\* C4: a forward scan from SeekToFirst to the end yields exactly the live user
\* keys, in strictly ascending order, each once, with its newest visible value.
C4_ScanYieldsLiveKeys ==
    (iter.open /\ iter.positioned /\ ~Valid(iter)) =>
        YieldedPairs(iter.yielded) = LiveFrom(ops, iter.sequence_, 1)

\* The scan an iterator over the fixed set S of entries makes from SeekToFirst.
RECURSIVE ScanFrom(_, _)
ScanFrom(it, S) ==
    IF ~Valid(it) THEN <<>>
    ELSE <<Current(it)>> \o
         ScanFrom(FindNextUserEntry(MergingNext(it, <<S>>, <<>>), <<S>>, <<>>, TRUE, 0), S)

ScanOf(S, snapshot) ==
    ScanFrom(FindNextUserEntry(
                 [NoIterator EXCEPT !.open = TRUE, !.mem = 1, !.sequence_ = snapshot,
                                    !.files_ = NewVersion.files_, !.positioned = TRUE,
                                    !.mem_pos = FirstEntry(S)],
                 <<S>>, <<>>, FALSE, 0), S)

IsPrefix(a, b) == Len(a) <= Len(b) /\ a = SubSeq(b, 1, Len(a))

\* C5: an iterator shows the database as it was when NewIterator returned: no
\* entry it yields has a sequence number above its snapshot, and its scan is
\* the scan of the entries that were there at its creation, whatever was
\* written, rotated, flushed or compacted since.
C5_IteratorIsolation ==
    /\ \A i \in DOMAIN iter.yielded : iter.yielded[i].sequence <= iter.sequence_
    /\ IsPrefix(iter.yielded, ScanOf(iter.at_creation, iter.sequence_))

\* An iterator that has yielded an entry while a later write was committed and
\* a compaction installed a Version with a table in level 1.
C5_Witness ==
    /\ iter.open
    /\ Len(iter.yielded) >= 2
    /\ db.versions_.last_sequence_ > iter.sequence_
    /\ iter.files_[1] = <<>>
    /\ db.versions_.current_.files_[1] # <<>>

\* -------------------------------------- close, crash and reopen; one client
InitLife ==
    InitWith([name |-> "life", max_writes |-> MaxWritesLife, max_deletes |-> 0,
              failures |-> FALSE, sync |-> FALSE], WriteBufferSmall)

NextLife ==
    \/ \E key \in Keys : WriteBegin(1, kTypeValue, key, FALSE, "none")
    \/ LeaderResume(1, "none")
    \/ \E key \in Keys : Get(key)
    \/ BgWake
    \/ BgFlushFinish
    \/ DtorBegin
    \/ DtorJoin
    \/ DtorFinish
    \/ Crash
    \/ Reopen

SpecLife == InitLife /\ [][NextLife]_vars

\* ----------------------------------- concurrent writers of distinct keys
InitConc ==
    InitWith([name |-> "conc", max_writes |-> MaxWritesConc, max_deletes |-> 0,
              failures |-> FALSE, sync |-> FALSE], WriteBufferSmall)

\* The keys no Put was issued for yet.
FreshKeys == (1..NumKeysConc) \ {ops[j].key : j \in DOMAIN ops}

NextConc ==
    \/ \E t \in Writers, key \in FreshKeys : WriteBegin(t, kTypeValue, key, FALSE, "none")
    \/ \E t \in Writers : WriterWake(t, "none")
    \/ \E t \in Writers : LeaderResume(t, "none")
    \/ \E key \in 1..NumKeysConc : Get(key)
    \/ BgWake
    \/ BgFlushFinish

SpecConc == InitConc /\ [][NextConc]_vars

\* ------------------------------- concurrent writers and a log file that fails
InitFail ==
    InitWith([name |-> "fail", max_writes |-> MaxWritesFail, max_deletes |-> 0,
              failures |-> TRUE, sync |-> TRUE], WriteBufferSmall)

NextFail ==
    \/ \E t \in Writers, key \in Keys, sync \in SyncChoices, failure \in Failures :
           WriteBegin(t, kTypeValue, key, sync, failure)
    \/ \E t \in Writers, failure \in Failures : WriterWake(t, failure)
    \/ \E t \in Writers, failure \in Failures : LeaderResume(t, failure)
    \/ BgWake
    \/ BgFlushFinish

SpecFail == InitFail /\ [][NextFail]_vars

\* ------------------------------------ one client and a flush that can fail
InitBgFail ==
    InitWith([name |-> "bgfail", max_writes |-> MaxWritesBgFail, max_deletes |-> 0,
              failures |-> FALSE, sync |-> FALSE], WriteBufferSmall)

NextBgFail ==
    \/ \E key \in Keys : WriteBegin(1, kTypeValue, key, FALSE, "none")
    \/ LeaderResume(1, "none")
    \/ BgWake
    \/ BgFlushFinish
    \/ BgFlushFail

SpecBgFail == InitBgFail /\ [][NextBgFail]_vars

\* ------------------------------- one client and an iterator moving backwards
InitRev ==
    InitWith([name |-> "rev", max_writes |-> MaxWritesRev, max_deletes |-> MaxDeletesRev,
              failures |-> FALSE, sync |-> FALSE], WriteBufferSmall)

NextRev ==
    \/ \E type \in Types, key \in Keys : WriteBegin(1, type, key, FALSE, "none")
    \/ LeaderResume(1, "none")
    \/ BgWake
    \/ BgFlushFinish
    \/ NewIterator
    \/ SeekToLast
    \/ IterPrev
    \/ DeleteIterator

SpecRev == InitRev /\ [][NextRev]_vars

\* ---------------- one client, and output tables that are closed at every entry
InitLevels ==
    InitWithOptions([name |-> "levels", max_writes |-> MaxWritesLevels, max_deletes |-> 0,
                     failures |-> FALSE, sync |-> FALSE],
                    [DefaultOptions(WriteBufferSmall) EXCEPT
                         !.max_file_size = MaxFileSizeSmall])

NextLevels ==
    \/ \E key \in Keys : WriteBegin(1, kTypeValue, key, FALSE, "none")
    \/ LeaderResume(1, "none")
    \/ BgWake
    \/ BgFlushFinish
    \/ \E false_positive \in BOOLEAN : BgCompactFinish(false_positive)

SpecLevels == InitLevels /\ [][NextLevels]_vars

\* ------------------- one client and a compaction input that cannot be opened
InitReadErr ==
    InitWith([name |-> "readerr", max_writes |-> MaxWritesReadErr, max_deletes |-> 0,
              failures |-> FALSE, sync |-> FALSE], WriteBufferSmall)

NextReadErr ==
    \/ \E key \in Keys : WriteBegin(1, kTypeValue, key, FALSE, "none")
    \/ LeaderResume(1, "none")
    \/ BgWake
    \/ BgFlushFinish
    \/ \E false_positive \in BOOLEAN : BgCompactFinish(false_positive)
    \/ \E number \in DOMAIN disk.tables : BgCompactReadError(number)

SpecReadErr == InitReadErr /\ [][NextReadErr]_vars

\* ------- one client, and a compaction that takes its file number unlocked
InitRace ==
    InitWith([name |-> "race", max_writes |-> MaxWritesRace, max_deletes |-> 0,
              failures |-> FALSE, sync |-> FALSE], WriteBufferSmall)

NextRace ==
    \/ \E key \in Keys : WriteBegin(1, kTypeValue, key, FALSE, "none")
    \/ LeaderResume(1, "none")
    \/ BgWake
    \/ BgFlushFinish
    \/ BgCompactLoadNumber
    \/ BgCompactStoreNumber
    \/ \E false_positive \in BOOLEAN : BgCompactInstall(false_positive)

SpecRace == InitRace /\ [][NextRace]_vars

\* ------------- concurrent writers, flushes and compactions, fairly scheduled
InitLive ==
    InitWith([name |-> "live", max_writes |-> MaxWritesLive, max_deletes |-> 0,
              failures |-> FALSE, sync |-> FALSE], WriteBufferSmall)

NextLive ==
    \/ \E t \in Writers, key \in 1..NumKeysLive :
           WriteBegin(t, kTypeValue, key, FALSE, "none")
    \/ \E t \in Writers : WriterWake(t, "none")
    \/ \E t \in Writers : LeaderResume(t, "none")
    \/ BgWake
    \/ BgFlushFinish
    \/ \E false_positive \in BOOLEAN : BgCompactFinish(false_positive)

\* The states in which a thread has a step to take: a writer whose wait on its
\* condition variable was notified and can end, a leader whose sleep is over
\* or whose wait on bg_cv_ was notified, the background thread with work
\* scheduled, and the background thread writing a table.
WriterCanWake(t) ==
    /\ writer[t].pc = "waiting"
    /\ writer[t].cv
    /\ writer[t].done \/ (db.writers_ # <<>> /\ db.writers_[1] = t)

LeaderCanResume(t) ==
    \/ writer[t].pc = "sleep"
    \/ writer[t].pc = "room" /\ db.bg_cv_

BgCanWake == bg.pc = "wait" /\ (db.shutting_down_ \/ db.bg_compaction_scheduled_)

\* A thread that has a step to take takes it; a client is free never to call
\* again.  Each conjunct is weak fairness of an action whose steps change the
\* state, WF_vars(A); for the leader and the background thread ENABLED
\* <<A>>_vars is written out as the state predicate that holds exactly where A
\* is enabled.
FairLive ==
    /\ \A t \in Writers : WF_vars(writer[t].cv /\ WriterWake(t, "none"))
    /\ \A t \in Writers :
           []<>(~LeaderCanResume(t))
               \/ []<><<LeaderCanResume(t) /\ LeaderResume(t, "none")>>_vars
    /\ []<>(~BgCanWake) \/ []<><<BgWake>>_vars
    /\ []<>(bg.pc # "flush") \/ []<><<BgFlushFinish>>_vars
    /\ []<>(bg.pc # "compact")
           \/ []<><<\E false_positive \in BOOLEAN : BgCompactFinish(false_positive)>>_vars

SpecLive == InitLive /\ [][NextLive]_vars /\ FairLive

\* ------------------------------- a reader beside one writer and the background
InitSnap ==
    InitWith([name |-> "snap", max_writes |-> MaxWritesSnap, max_deletes |-> MaxDeletesSnap,
              failures |-> FALSE, sync |-> FALSE], WriteBufferSeq)

NextSnap ==
    \/ \E type \in Types, key \in Keys : WriteBegin(1, type, key, FALSE, "none")
    \/ LeaderResume(1, "none")
    \/ \E key \in Keys : GetBegin(key)
    \/ GetEnd
    \/ BgWake
    \/ BgFlushFinish
    \/ \E false_positive \in BOOLEAN : BgCompactFinish(false_positive)

SpecSnap == InitSnap /\ [][NextSnap]_vars

\* ------------------ readers, an iterator, the background thread and ~DBImpl
InitRefs ==
    InitWith([name |-> "refs", max_writes |-> MaxWritesRefs, max_deletes |-> 0,
              failures |-> FALSE, sync |-> FALSE], WriteBufferSmall)

NextRefs ==
    \/ \E key \in 1..NumKeysLive : WriteBegin(1, kTypeValue, key, FALSE, "none")
    \/ LeaderResume(1, "none")
    \/ \E key \in 1..NumKeysLive : GetBegin(key)
    \/ GetEnd
    \/ NewIterator
    \/ SeekToFirst
    \/ IterNext
    \/ DeleteIterator
    \/ BgWake
    \/ BgFlushFinish
    \/ \E false_positive \in BOOLEAN : BgCompactFinish(false_positive)
    \/ DtorBegin
    \/ DtorJoin
    \/ DtorFinish

SpecRefs == InitRefs /\ [][NextRefs]_vars

\* --------------------------------------- ~DBImpl while a compaction merges
InitShut ==
    InitWith([name |-> "shut", max_writes |-> MaxWritesShut, max_deletes |-> 0,
              failures |-> FALSE, sync |-> FALSE], WriteBufferSmall)

NextShut ==
    \/ \E key \in Keys : WriteBegin(1, kTypeValue, key, FALSE, "none")
    \/ LeaderResume(1, "none")
    \/ BgWake
    \/ BgFlushFinish
    \/ \E false_positive \in BOOLEAN : BgCompactFinish(false_positive)
    \/ \E false_positive \in BOOLEAN, merged \in 1..MaxWritesShut :
           BgCompactAbort(false_positive, merged)
    \/ DtorBegin
    \/ DtorJoin
    \/ DtorFinish

SpecShut == InitShut /\ [][NextShut]_vars

\* -------------- one client, one key, and a memtable that holds two entries,
\* in a directory where the output of a compaction cannot be created: each
\* compaction fails, while a frozen memtable waits for its flush
InitStop ==
    InitWith([name |-> "stop", max_writes |-> MaxWritesStop, max_deletes |-> 0,
              failures |-> FALSE, sync |-> FALSE], WriteBufferOne)

NextStop ==
    \/ WriteBegin(1, kTypeValue, 1, FALSE, "none")
    \/ LeaderResume(1, "none")
    \/ BgWake
    \/ BgFlushFinish
    \/ db.imm_ # 0 /\ BgCompactOpenFail

SpecStop == InitStop /\ [][NextStop]_vars

\* ------------------ writers whose WAL I/O takes time, beside the readers
\* Get and NewIterator lock mutex_ before they take their snapshot, and Get
\* locks it again for its Unrefs.
ReaderLocks ==
    /\ ~MutexHeld
    /\ \/ \E key \in Keys : GetBegin(key)
       \/ GetEnd
       \/ NewIterator

InitWal ==
    InitWith([name |-> "wal", max_writes |-> MaxWritesWal, max_deletes |-> 1,
              failures |-> TRUE, sync |-> TRUE], WriteBufferLarge)

NextWal ==
    \/ \E t \in Writers, type \in Types, key \in Keys, sync \in SyncChoices :
           WalBegin(t, type, key, sync)
    \/ \E t \in Writers, failure \in Failures : WalEnd(t, failure)
    \/ ReaderLocks

SpecWal == InitWal /\ [][NextWal]_vars

\* ----------------- a reader of three keys beside one writer and the flushes
\* (with MaxWritesSeek writes the writer never has to wait for room)
InitSeek ==
    InitWith([name |-> "seek", max_writes |-> MaxWritesSeek, max_deletes |-> 0,
              failures |-> FALSE, sync |-> FALSE], WriteBufferOne)

NextSeek ==
    \/ \E key \in 1..NumKeysSeek : WriteBegin(1, kTypeValue, key, FALSE, "none")
    \/ \E key \in 1..NumKeysSeek : GetBegin(key)
    \/ GetEnd
    \/ BgWake
    \/ BgFlushFinish

SpecSeek == InitSeek /\ [][NextSeek]_vars

\* ------------------------------------ the bytes of a WAL file and its reader
\* crc32c::Extend, as a checksum over bytes that a change of one byte changes
\* (the width of the real one plays no part here), and crc32c::Mask.
RECURSIVE Extend(_, _)
Extend(crc, bytes) ==
    IF bytes = <<>> THEN crc
    ELSE Extend((crc * 33 + Head(bytes) + 1) % CrcModulus, Tail(bytes))

Value(bytes) == Extend(0, bytes)

Mask(crc) == (crc + kMaskDelta) % CrcModulus

EncodeFixed32(n) ==
    <<n % 256, (n \div 256) % 256, (n \div 65536) % 256, (n \div 16777216) % 256>>

DecodeFixed32(b) == b[1] + 256 * b[2] + 65536 * b[3] + 16777216 * b[4]

\* WalWriter::AddRecord: the bytes it writes for `data`: the masked crc of
\* length, type and data, the length in two bytes, the type, the data.
RecordBytes(data) ==
    LET header == <<Len(data) % 256, Len(data) \div 256, kRecordTypeFull>>
    IN  EncodeFixed32(Mask(Extend(Value(header), data))) \o header \o data

\* std::istream::read of n bytes at `pos` of `file`: a stream that has failed
\* reads nothing; a read that meets the end of the file before n bytes sets
\* eofbit and failbit, and gcount() is what it got.
StreamRead(file, stream, n) ==
    IF stream.fail THEN [bytes |-> <<>>, gcount |-> 0, stream |-> stream]
    ELSE IF Len(file) - stream.pos >= n
    THEN [bytes |-> SubSeq(file, stream.pos + 1, stream.pos + n), gcount |-> n,
          stream |-> [stream EXCEPT !.pos = @ + n]]
    ELSE [bytes |-> SubSeq(file, stream.pos + 1, Len(file)),
          gcount |-> Len(file) - stream.pos,
          stream |-> [pos |-> Len(file), eof |-> TRUE, fail |-> TRUE]]

\* WalReader::ReadRecord on the reader r: the reader after the call, with what
\* the call returned and the record it gave.
ReadRecord(r, file) ==
    IF r.status_ # "OK" THEN [r EXCEPT !.returned = "false"]
    ELSE LET h == StreamRead(file, r.file_, kHeaderSize)
         IN  IF h.stream.eof
             THEN [r EXCEPT !.file_ = h.stream, !.returned = "false"]
             ELSE IF h.gcount < kHeaderSize
             THEN [r EXCEPT !.file_ = h.stream, !.returned = "false",
                            !.status_ = "Corruption"]
             ELSE LET expected_crc == DecodeFixed32(h.bytes)
                      length == h.bytes[5] + 256 * h.bytes[6]
                      type == h.bytes[7]
                      d == StreamRead(file, h.stream, length)
                      actual_crc == Extend(Value(SubSeq(h.bytes, 5, 7)), d.bytes)
                  IN  IF d.gcount < length
                      THEN [r EXCEPT !.file_ = d.stream, !.returned = "false",
                                     !.status_ = "Corruption"]
                      ELSE IF expected_crc # Mask(actual_crc)
                      THEN [r EXCEPT !.file_ = d.stream, !.returned = "false",
                                     !.status_ = "Corruption"]
                      ELSE IF type = kRecordTypeFull
                      THEN [r EXCEPT !.file_ = d.stream, !.returned = "true",
                                     !.records = Append(@, d.bytes)]
                      ELSE [r EXCEPT !.file_ = d.stream, !.returned = "false",
                                     !.status_ = "Corruption"]

\* WalReader::WalReader on a file that exists.
NewWalReader ==
    [status_ |-> "OK", file_ |-> [pos |-> 0, eof |-> FALSE, fail |-> FALSE],
     returned |-> "none", records |-> <<>>, calls |-> 0]

Bytes == 0..MaxByte

\* The data of a record: up to MaxDataLen bytes.
RecordData == UNION {[1..n -> Bytes] : n \in 0..MaxDataLen}

\* A writer appends records to a log file (`ops` holds their data, `disk` the
\* bytes of the file); then the file is left as it is, or it loses its end
\* (the machine stopped in the middle of a write), or one of its bytes is
\* changed; then a reader (`getter`) reads it record by record.
InitWalFile ==
    /\ db = 0
    /\ memtables = <<>>
    /\ disk = <<>>
    /\ writer = <<>>
    /\ bg = 0
    /\ getter = NewWalReader
    /\ iter = 0
    /\ main = [pc |-> "write", damage |-> "none"]
    /\ ops = <<>>
    /\ last_batch = 0
    /\ scenario = [name |-> "walfile"]

AddRecord(data) ==
    /\ main.pc = "write"
    /\ Len(ops) < MaxRecords
    /\ ops' = Append(ops, data)
    /\ disk' = disk \o RecordBytes(data)
    /\ UNCHANGED <<db, memtables, writer, bg, getter, iter, main, last_batch, scenario>>

OpenWalReader ==
    /\ main.pc = "write"
    /\ main' = [main EXCEPT !.pc = "read"]
    /\ UNCHANGED <<db, memtables, disk, writer, bg, getter, iter, ops, last_batch, scenario>>

TruncateFile(n) ==
    /\ main.pc = "write"
    /\ n < Len(disk)
    /\ disk' = SubSeq(disk, 1, n)
    /\ main' = [pc |-> "read", damage |-> "truncated"]
    /\ UNCHANGED <<db, memtables, writer, bg, getter, iter, ops, last_batch, scenario>>

CorruptByte(i, b) ==
    /\ main.pc = "write"
    /\ i \in DOMAIN disk
    /\ disk[i] # b
    /\ disk' = [disk EXCEPT ![i] = b]
    /\ main' = [pc |-> "read", damage |-> "corrupted"]
    /\ UNCHANGED <<db, memtables, writer, bg, getter, iter, ops, last_batch, scenario>>

ReadNext ==
    /\ main.pc = "read"
    /\ getter.calls <= MaxRecords + 1
    /\ getter' = [ReadRecord(getter, disk) EXCEPT !.calls = @ + 1]
    /\ UNCHANGED <<db, memtables, disk, writer, bg, iter, main, ops, last_batch, scenario>>

NextWalFile ==
    \/ \E data \in RecordData : AddRecord(data)
    \/ OpenWalReader
    \/ \E n \in 0..(MaxRecords * (kHeaderSize + MaxDataLen)) : TruncateFile(n)
    \/ \E i \in 1..(MaxRecords * (kHeaderSize + MaxDataLen)), b \in Bytes : CorruptByte(i, b)
    \/ ReadNext

SpecWalFile == InitWalFile /\ [][NextWalFile]_vars

\* ----------------------------------- concurrent writers of large values
InitBig ==
    InitWith([name |-> "big", max_writes |-> MaxWritesBig, max_deletes |-> 0,
              failures |-> FALSE, sync |-> FALSE], WriteBufferSmall)

NextBig ==
    \/ \E t \in Writers, key \in Keys : PutLarge(t, key)
    \/ \E t \in Writers : WriterWake(t, "none")
    \/ \E t \in Writers : LeaderResume(t, "none")
    \/ BgWake
    \/ BgFlushFinish

SpecBig == InitBig /\ [][NextBig]_vars

\* ------------------------------ a flush that fails at the table or the manifest
InitLogFail ==
    InitWith([name |-> "logfail", max_writes |-> MaxWritesLogFail, max_deletes |-> 0,
              failures |-> FALSE, sync |-> FALSE], WriteBufferSmall)

NextLogFail ==
    \/ \E key \in Keys : WriteBegin(1, kTypeValue, key, FALSE, "none")
    \/ LeaderResume(1, "none")
    \/ \E key \in Keys : Get(key)
    \/ BgWake
    \/ BgFlushFinish
    \/ BgFlushFail
    \/ \E failure \in {"none", "append", "sync"} : BgFlushLogFail(failure)

SpecLogFail == InitLogFail /\ [][NextLogFail]_vars

\* =================================================================== claims
\* What a Get of key k issued in the current state returns.
GetNow(k) == GetRead(GetSnapshot(db, ops, k), memtables, disk.tables)

\* C2: a write that returned OK is visible to every Get that starts after it
\* returned: the snapshot of the Get is at or above the sequence number of the
\* write, and the entry that decides the Get is that write's or a later one.
C2_AcknowledgedWriteVisible ==
    (getter.pc = "idle" /\ getter.key # 0) =>
        /\ getter.seq >= getter.acknowledged
        /\ getter.sequence >= getter.acknowledged

\* C6: what the readers see is the state after a prefix of the writes in
\* sequence order: some j exists such that a Get of every key returns what
\* the first j writes left under it.
C6_ReadersSeePrefix ==
    \E j \in 0..Len(ops) :
        \A k \in Keys :
            /\ GetNow(k).status = Expected(SubSeq(ops, 1, j), k).status
            /\ GetNow(k).value = Expected(SubSeq(ops, 1, j), k).value

\* The entries of the log files on disk.
WalEntries(files) ==
    UNION {UNION {SeqToSet(files.logs[n][i]) : i \in DOMAIN files.logs[n]} :
           n \in DOMAIN files.logs}

\* What recovery should leave under key k: the newest entry of k in the logs.
Recovered(files, k) ==
    LET S == {e \in WalEntries(files) : e.user_key = k}
    IN  IF S = {} THEN [status |-> "NotFound", value |-> 0]
        ELSE LET e == CHOOSE e \in S : \A o \in S : o.sequence <= e.sequence
             IN  [status |-> IF e.type = kTypeValue THEN "OK" ELSE "NotFound",
                  value |-> e.value]

\* C3: after a close or a crash and a reopen, and before any new write, a Get
\* returns what the log on disk says, and the last sequence number is not
\* below the sequence numbers in the log.
C3_ReopenRecoversWrites ==
    (main.pc = "open" /\ main.opens > 1 /\ Len(ops) = main.ops_at_open) =>
        /\ \A e \in WalEntries(disk) : e.sequence <= db.versions_.last_sequence_
        /\ getter.key # 0 =>
               /\ getter.status = Recovered(disk, getter.key).status
               /\ getter.value = Recovered(disk, getter.key).value

\* C8: when the destructor reaches its wait for bg_compaction_scheduled_, the
\* background thread has exited and the flag is false, so the destructor ends.
C8_DestructorWaitsForNothing ==
    main.pc = "wait" => (bg.pc = "exited" /\ ~db.bg_compaction_scheduled_)

C9_FailedBatchLeavesNoTrace ==
    [][(last_batch'.id # last_batch.id /\ last_batch'.status # "OK") =>
           /\ \A i \in DOMAIN last_batch'.members :
                  /\ writer'[last_batch'.members[i]].done
                  /\ writer'[last_batch'.members[i]].status = last_batch'.status
           /\ \A n \in DOMAIN memtables' :
                  memtables'[n] \subseteq (IF n \in DOMAIN memtables THEN memtables[n] ELSE {})
           /\ db'.versions_.last_sequence_ = db.versions_.last_sequence_]_vars

\* The last batch had two writers and the log rejected it.
C9_Witness ==
    /\ last_batch.status = "IOError"
    /\ Len(last_batch.members) = 2
    /\ \A i \in 1..2 : writer[last_batch.members[i]].status = "IOError"

\* C10: once a write to the log has failed, a background error is latched and
\* every later batch fails.
C10_LogErrorLatched ==
    last_batch.io_failures > 0 =>
        /\ db.bg_error_ # "OK"
        /\ last_batch.status # "OK"

\* C11: after a background flush has failed, a Put or Delete issued after the
\* failure does not return OK.
C11_BackgroundErrorSurfaces ==
    \A j \in DOMAIN ops :
        (bg.failures > 0 /\ j > bg.failed_at) => ops[j].status # "OK"

\* C12: a Delete returns OK whether or not the key exists, and a Get of a key
\* that was never put, or whose newest entry is a deletion, returns NotFound.
C12_AbsentKeyNotFound ==
    /\ \A j \in DOMAIN ops :
           (ops[j].type = kTypeDeletion /\ ops[j].status # "pending") => ops[j].status = "OK"
    /\ (getter.pc = "idle" /\ getter.key # 0 /\ getter.expected.status = "NotFound") =>
           getter.status = "NotFound"

RECURSIVE ReverseSeq(_)
ReverseSeq(s) == IF s = <<>> THEN <<>> ELSE Append(ReverseSeq(Tail(s)), Head(s))

\* C13: a backward scan from SeekToLast to the end yields exactly the live user
\* keys, in strictly descending order, each once, with its newest visible value.
C13_ReverseScanYieldsLiveKeys ==
    (iter.open /\ iter.positioned /\ iter.direction_ = "kReverse" /\ ~Valid(iter)) =>
        YieldedPairs(iter.yielded) = ReverseSeq(LiveFrom(ops, iter.sequence_, 1))

\* The last record of the log file that is open in the state after a step.
LastRecord(logs, number) == logs[number][Len(logs[number])]

\* C14: when a leader commits a batch, its writes get the numbers
\* last_sequence + 1, last_sequence + 2, ... in the order of the queue, the
\* record in the log and the memtable hold those same entries, last_sequence
\* advances by the size of the batch, and every entry logged before has a
\* smaller number.
C14_BatchSequenceNumbers ==
    [][(last_batch'.id # last_batch.id /\ last_batch'.status = "OK") =>
           LET members == last_batch'.members
               n == Len(members)
               last == db.versions_.last_sequence_
               record == LastRecord(disk'.logs, db'.log_.number)
               before == IF db'.mem_ \in DOMAIN memtables THEN memtables[db'.mem_] ELSE {}
           IN  /\ db'.versions_.last_sequence_ = last + n
               /\ Len(record) = n
               /\ \A i \in 1..n :
                      /\ record[i].sequence = last + i
                      /\ record[i].user_key = ops'[writer'[members[i]].op].key
                      /\ record[i].type = ops'[writer'[members[i]].op].type
                      /\ record[i].value = ops'[writer'[members[i]].op].value
                      /\ ops'[writer'[members[i]].op].sequence = last + i
               /\ \A i, j \in 1..n : i < j => writer'[members[i]].op < writer'[members[j]].op
               /\ memtables'[db'.mem_] = before \cup SeqToSet(record)
               /\ \A e \in WalEntries(disk) : e.sequence <= last]_vars

\* A leader has committed a batch of two writers.
C14_Witness ==
    /\ last_batch.status = "OK"
    /\ Len(last_batch.members) = 2
    /\ Len(LastRecord(disk.logs, db.log_.number)) = 2
    /\ db.versions_.last_sequence_ >= 3

\* C15: in the current Version the files of every level from 1 on are in
\* ascending order with disjoint user-key ranges: each file ends before the
\* next one begins.
C15_LevelsDisjoint ==
    \A l \in Levels : l >= 1 =>
        LET files == db.versions_.current_.files_[l]
        IN  \A i, j \in DOMAIN files : i < j =>
                /\ UserCompare(files[i].largest.user_key, files[j].smallest.user_key) < 0
                /\ InternalKeyCompare(files[i].smallest, files[j].smallest) < 0

\* A compaction has left two files in level 1.
C15_Witness ==
    /\ Len(db.versions_.current_.files_[1]) >= 2
    /\ bg.pc = "wait"

C17_LastSequenceBounds ==
    [][/\ \A e \in EntriesReachable(db', memtables', disk'.tables) :
              e.sequence <= db'.versions_.last_sequence_
       /\ db'.versions_.last_sequence_ >= db.versions_.last_sequence_]_vars

\* Entries sit in the active memtable, in the frozen one and in tables of
\* levels 0 and 1 at once.
C17_Witness ==
    /\ memtables[db.mem_] # {}
    /\ db.imm_ # 0
    /\ db.versions_.current_.files_[0] # <<>>
    /\ db.versions_.current_.files_[1] # <<>>
    /\ db.versions_.last_sequence_ >= 6

\* The files of level l after the edits in `records` are applied, one after
\* the other, to the set F: the added files join, the deleted files leave.
RECURSIVE FilesAfterEdits(_, _, _)
FilesAfterEdits(F, records, l) ==
    IF records = <<>> THEN F
    ELSE LET e == Head(records)
             deleted == {d[2] : d \in {x \in e.deleted_files_ : x[1] = l}}
         IN  FilesAfterEdits({f \in F \cup SeqToSet(e.new_files_[l]) : f.number \notin deleted},
                             Tail(records), l)

\* C18: the Version that LogAndApply installs has, at every level, exactly the
\* files of the Version before plus the files the edit adds minus the files it
\* deletes, in the order of (smallest internal key, file number).
C18_EditApplied ==
    [][LET records == SubSeq(disk'.manifest, Len(disk.manifest) + 1, Len(disk'.manifest))
           before == db.versions_.current_.files_
           after == db'.versions_.current_.files_
       IN  \A l \in Levels :
               /\ SeqToSet(after[l]) = FilesAfterEdits(SeqToSet(before[l]), records, l)
               /\ Len(after[l]) = Cardinality(SeqToSet(after[l]))
               /\ \A i, j \in DOMAIN after[l] : i < j => BySmallestKey(after[l][i], after[l][j])]_vars

\* The last edit applied deleted files of level 0 and added a file to level 1,
\* and level 0 kept a file.
C18_Witness ==
    /\ disk.manifest # <<>>
    /\ disk.manifest[Len(disk.manifest)].deleted_files_ # {}
    /\ disk.manifest[Len(disk.manifest)].new_files_[1] # <<>>
    /\ Len(db.versions_.current_.files_[0]) >= 1
    /\ Len(db.versions_.current_.files_[1]) >= 2

\* C19: the level-0 inputs of a level-0 compaction are closed under overlap:
\* no level-0 file of the input Version outside the inputs overlaps, in user
\* keys, a file among the inputs.
C19_Level0InputsClosed ==
    (bg.pc = "compact" /\ bg.c.level_ = 0) =>
        \A g \in SeqToSet(bg.c.input_version_[0]) \ SeqToSet(bg.c.inputs0) :
            \A f \in SeqToSet(bg.c.inputs0) :
                \/ UserCompare(g.largest.user_key, f.smallest.user_key) < 0
                \/ UserCompare(g.smallest.user_key, f.largest.user_key) > 0

\* The files of the Version in the order Version::Get consults them for a
\* lookup key, and the sequence numbers a table holds for the key.
RECURSIVE ConsultOrderFrom(_, _, _)
ConsultOrderFrom(files_, ikey, level) ==
    IF level >= kNumLevels THEN <<>>
    ELSE FilesToSearch(files_[level], level, ikey) \o ConsultOrderFrom(files_, ikey, level + 1)

SequencesFor(tables, number, user_key) ==
    IF number \in DOMAIN tables
    THEN {e.sequence : e \in {x \in tables[number] : x.user_key = user_key}}
    ELSE {}

NewerFirst(tables, order, user_key) ==
    \A i, j \in DOMAIN order :
        (/\ i < j
         /\ SequencesFor(tables, order[i].number, user_key) # {}
         /\ SequencesFor(tables, order[j].number, user_key) # {})
        => \E s \in SequencesFor(tables, order[i].number, user_key) :
               \A t \in SequencesFor(tables, order[j].number, user_key) : s > t

\* C20: in the installed Version, of two files holding entries for one user
\* key, the file Version::Get consults first (level 0 by descending file
\* number, then level 1, level 2, ...) holds the entry with the larger
\* sequence number.
C20_EarlierFileIsNewer ==
    \A k \in Keys :
        NewerFirst(disk.tables, ConsultOrderFrom(db.versions_.current_.files_, LookupKey(k, db.versions_.last_sequence_), 0), k)

\* The entries of the tables a compaction reads, the entries of the tables of
\* a Version, and the deletions a compaction dropped by the deletion rule (the
\* newest entry of their user key among the inputs, absent from every table of
\* the resulting Version).
CompactionInputEntries(c, tables) ==
    UNION {tables[f.number] : f \in SeqToSet(c.inputs0) \cup SeqToSet(c.inputs1)}

VersionEntries(files_, tables) ==
    UNION {UNION {tables[f.number] : f \in SeqToSet(files_[l])} : l \in Levels}

DroppedDeletions(c, tables, files_after, tables_after) ==
    {d \in CompactionInputEntries(c, tables) :
        /\ d.type = kTypeDeletion
        /\ \A o \in CompactionInputEntries(c, tables) :
               o.user_key = d.user_key => o.sequence <= d.sequence
        /\ d \notin VersionEntries(files_after, tables_after)}

\* C21: when a compaction drops a deletion entry for a user key, no file of
\* the resulting Version (at any level, level-0 files that were not inputs
\* included) holds an older entry for that user key.
C21_DroppedDeletionHidesNothing ==
    [][(bg.pc = "compact" /\ db'.versions_.current_ # db.versions_.current_) =>
          \A d \in DroppedDeletions(bg.c, disk.tables, db'.versions_.current_.files_, disk'.tables) :
              \A x \in VersionEntries(db'.versions_.current_.files_, disk'.tables) :
                  x.user_key = d.user_key => x.sequence > d.sequence]_vars

\* C22: a compaction whose input table cannot be opened is aborted: its input
\* files stay in the current Version, the manifest gets no record, and a Get
\* of every key returns what it returned before the compaction.
C22_ReadErrorAbortsCompaction ==
    [][(bg.pc = "compact" /\ bg'.failures > bg.failures) =>
          /\ \A f \in SeqToSet(bg.c.inputs0) \cup SeqToSet(bg.c.inputs1) :
                 \E l \in Levels : f \in SeqToSet(db'.versions_.current_.files_[l])
          /\ disk'.manifest = disk.manifest
          /\ \A k \in Keys : GetNow(k)' = GetNow(k)]_vars

\* The numbers of the log files, of the tables and of the manifest.
LogNumbers == DOMAIN disk.logs \cup DOMAIN memtables
TableNumbers == DOMAIN disk.tables \cup (IF bg.output_file_number # 0 THEN {bg.output_file_number} ELSE {})

\* C23: no two files receive the same number: a number given to a log file
\* (and its memtable) is never given to a table, and every number handed out
\* is below next_file_number_.
C23_FileNumbersUnique ==
    /\ LogNumbers \cap TableNumbers = {}
    /\ \A n \in LogNumbers \cup TableNumbers : n < db.versions_.next_file_number_

\* The writers that lead: they are inside MakeRoomForWrite, waiting or asleep.
Leaders == {t \in Writers : writer[t].pc \in {"room", "sleep"}}

\* writers_ as the leader of the step finds it: a writer that leads in the
\* step in which it enqueues found the queue empty.
QueueAtCommit == IF db.writers_ = <<>> THEN <<last_batch'.leader>> ELSE db.writers_

\* C24: at most one writer leads, and it is the front of writers_; the batch
\* a leader commits is a non-empty prefix of writers_ that starts with the
\* leader, exactly the writers of that prefix are popped and marked done with
\* the status of the batch, and no other writer is touched.
C24_OneLeaderCommitsPrefix ==
    /\ [](/\ Cardinality(Leaders) <= 1
          /\ \A t \in Leaders : db.writers_ # <<>> /\ db.writers_[1] = t)
    /\ [][last_batch'.id # last_batch.id =>
             LET members == last_batch'.members
                 leader == last_batch'.leader
             IN  /\ members # <<>>
                 /\ members[1] = leader
                 /\ QueueAtCommit[1] = leader
                 /\ members \o db'.writers_ = QueueAtCommit
                 /\ Leaders \subseteq {leader}
                 /\ writer'[leader].pc = "idle"
                 /\ \A x \in SeqToSet(members) :
                        /\ writer'[x].done
                        /\ writer'[x].status = last_batch'.status
                 /\ \A x \in Writers \ SeqToSet(members) : writer'[x] = writer[x]]_vars

\* A leader that waited in MakeRoomForWrite has committed a batch of two: the
\* second writer enqueued while it waited.
C24_Witness ==
    /\ Len(last_batch.members) = 2
    /\ db.writers_ = <<>>
    /\ \A x \in SeqToSet(last_batch.members) : writer[x].done
    /\ writer[last_batch.leader].pc = "idle"
    /\ \E x \in SeqToSet(last_batch.members) : writer[x].pc = "waiting"

\* No wake-up is lost: a writer whose wait on its condition variable can end
\* (it is done, or at the front of writers_) has been notified, and a leader
\* waits on bg_cv_ without a notification only while the background thread
\* still has a call to end.
NoLostWakeup ==
    \A t \in Writers :
        /\ (writer[t].pc = "waiting" /\ (writer[t].done \/ db.writers_[1] = t))
               => writer[t].cv
        /\ (writer[t].pc = "room" /\ ~db.bg_cv_)
               => (db.bg_compaction_scheduled_ /\ bg.pc # "exited")

\* C25: under fair scheduling, without I/O errors or shutdown, every Put or
\* Delete that was called returns (a writer that is not idle becomes idle),
\* and no wake-up is lost.
C25_WriteReturns ==
    /\ \A t \in Writers : (writer[t].pc # "idle") ~> (writer[t].pc = "idle")
    /\ []NoLostWakeup

\* A writer that queued behind a leader was marked done and notified by it,
\* woke, and its Put returned OK.
C25_Witness ==
    /\ Len(last_batch.members) = 2
    /\ \E t \in SeqToSet(last_batch.members) \ {last_batch.leader} :
           /\ writer[t].pc = "idle"
           /\ writer[t].cv
           /\ ops[writer[t].op].status = "OK"

\* The records a step appends to the manifest.
NewRecords == SubSeq(disk'.manifest, Len(disk.manifest) + 1, Len(disk'.manifest))

\* C26: under fair scheduling, without I/O errors or shutdown, a frozen
\* memtable is flushed: imm_ becomes null, and in the step in which it does
\* the manifest gets an edit that adds to level 0 a table with the entries of
\* the frozen memtable, that table is in the current Version, and bg_cv_ is
\* notified.
C26_FrozenMemtableFlushed ==
    /\ (db.imm_ # 0) ~> (db.imm_ = 0)
    /\ [][(db.imm_ # 0 /\ db'.imm_ = 0) =>
             /\ \E i \in DOMAIN NewRecords : \E j \in DOMAIN NewRecords[i].new_files_[0] :
                    LET f == NewRecords[i].new_files_[0][j]
                    IN  /\ ~NewRecords[i].snapshot
                        /\ disk'.tables[f.number] = memtables[db.imm_]
                        /\ \E l \in Levels : f \in SeqToSet(db'.versions_.current_.files_[l])
             /\ db'.bg_cv_
             /\ \A t \in Writers : writer[t].pc = "room" => LeaderCanResume(t)']_vars

\* A memtable that was frozen while a compaction was running has been
\* flushed: the manifest has the edit of a compaction whose output has the
\* number o, and after it the edit of a flush whose log file has a number
\* below o.
C26_Witness ==
    /\ db.imm_ = 0
    /\ \E i, j \in DOMAIN disk.manifest :
           /\ i < j
           /\ ~disk.manifest[i].snapshot
           /\ disk.manifest[i].deleted_files_ # {}
           /\ disk.manifest[i].new_files_[1] # <<>>
           /\ ~disk.manifest[j].snapshot
           /\ disk.manifest[j].new_files_[0] # <<>>
           /\ disk.manifest[j].log_number_ < disk.manifest[i].new_files_[1][1].number

\* The entries a step adds to the memtables.
AddedToMemtables ==
    UNION {memtables'[n] \ (IF n \in DOMAIN memtables THEN memtables[n] ELSE {}) :
           n \in DOMAIN memtables'}

\* C27: an entry is added to the memtable only after the log record that
\* contains it was appended (and synced when asked for): a step that adds
\* entries to a memtable is the commit of a batch whose log write returned OK,
\* and the entries are those of the record it appended; every entry of a
\* memtable is in a log file, and what a Get returns is in a log file.
C27_LoggedBeforeApplied ==
    /\ [][AddedToMemtables # {} =>
             /\ last_batch'.id # last_batch.id
             /\ last_batch'.status = "OK"
             /\ Len(disk'.logs[db'.log_.number]) =
                    1 + (IF db'.log_.number \in DOMAIN disk.logs
                         THEN Len(disk.logs[db'.log_.number]) ELSE 0)
             /\ AddedToMemtables = SeqToSet(LastRecord(disk'.logs, db'.log_.number))]_vars
    /\ [](\A n \in DOMAIN memtables : memtables[n] \subseteq WalEntries(disk))
    /\ [](\A k \in Keys : GetNow(k).status = "OK" =>
              \E e \in WalEntries(disk) :
                  /\ e.user_key = k
                  /\ e.sequence = GetNow(k).sequence
                  /\ e.value = GetNow(k).value)

\* A batch of two with a writer that asked for a sync was logged, synced and
\* added to the memtable, and a Get returns its last entry.
C27_Witness ==
    /\ last_batch.status = "OK"
    /\ Len(last_batch.members) = 2
    /\ \E t \in SeqToSet(last_batch.members) : writer[t].sync
    /\ SeqToSet(LastRecord(disk.logs, db.log_.number)) \subseteq memtables[db.mem_]
    /\ \E k \in Keys : GetNow(k).status = "OK" /\ GetNow(k).sequence = db.versions_.last_sequence_

\* The writers a step marks done with the status OK.
NewlyDoneOK == {t \in Writers : writer'[t].done /\ ~writer[t].done /\ writer'[t].status = "OK"}

\* C28: a write issued with sync = true is not acknowledged before Sync has
\* succeeded on the log record that contains it, whoever leads its batch: a
\* step that marks such a writer done with the status OK is the commit of a
\* batch it belongs to, whose record is the last of the log and was synced;
\* and the status a follower returns is the one that commit gave it.
C28_SyncBeforeAck ==
    /\ [][\A t \in NewlyDoneOK : writer[t].sync =>
              /\ last_batch'.id # last_batch.id
              /\ t \in SeqToSet(last_batch'.members)
              /\ last_batch'.synced
              /\ \E e \in SeqToSet(LastRecord(disk'.logs, db'.log_.number)) :
                     /\ e.user_key = writer[t].key
                     /\ e.sequence = ops'[writer[t].op].sequence]_vars
    /\ [][\A t \in Writers : writer[t].pc = "waiting" /\ writer[t].done
                                 /\ writer'[t].pc = "idle" =>
              /\ writer'[t].status = writer[t].status
              /\ ops'[writer[t].op].status = writer[t].status]_vars

\* A writer that asked for a sync was acknowledged with OK as the follower of
\* a leader that did not ask for one, and the record of their batch was synced.
C28_Witness ==
    /\ last_batch.status = "OK"
    /\ last_batch.synced
    /\ Len(last_batch.members) = 2
    /\ ~writer[last_batch.members[1]].sync
    /\ writer[last_batch.members[2]].sync
    /\ writer[last_batch.members[2]].pc = "idle"
    /\ ops[writer[last_batch.members[2]].op].status = "OK"

\* The entries of key k that a reader with the snapshot seq may see.
VisibleAt(k, seq) == {e \in WalEntries(disk) : e.user_key = k /\ e.sequence <= seq}

\* C29: a Get observes no entry above the snapshot it captured and returns,
\* for its key, what the entry with the highest sequence number at or below
\* the snapshot says (its value, or NotFound when it is a deletion or there is
\* none), whatever was committed between its snapshot and its lookups.
C29_ReadsHighestWithinSnapshot ==
    [][getter.pc = "reading" /\ getter'.pc = "idle" =>
           /\ getter'.sequence <= getter.seq
           /\ IF VisibleAt(getter.key, getter.seq) = {}
              THEN getter'.status = "NotFound"
              ELSE \E e \in VisibleAt(getter.key, getter.seq) :
                       /\ \A o \in VisibleAt(getter.key, getter.seq) : o.sequence <= e.sequence
                       /\ IF e.type = kTypeValue
                          THEN /\ getter'.status = "OK"
                               /\ getter'.value = e.value
                               /\ getter'.sequence = e.sequence
                          ELSE getter'.status = "NotFound"]_vars

\* How many references to the MemTable n, and to the Version v, the state
\* accounts for: the DB's own (mem_, imm_, current_), those of the open
\* iterator, of a Get between its snapshot and its return, and of the
\* background thread while it writes a table.
One(b) == IF b THEN 1 ELSE 0

MemTableHolders(n) ==
    One(db.mem_ = n) + One(db.imm_ = n)
        + One(iter.open /\ iter.mem = n) + One(iter.open /\ iter.imm = n)
        + One(getter.pc = "reading" /\ getter.mem = n)
        + One(getter.pc = "reading" /\ getter.imm = n)

VersionHolders(v) ==
    One(db.versions_.current_id_ = v)
        + One(iter.open /\ iter.version = v)
        + One(getter.pc = "reading" /\ getter.version = v)
        + One(bg.pc \in {"flush", "compact"} /\ bg.version = v)

\* The MemTables and the Versions in use: by the DB, a Get, the iterator, the
\* flush (imm_ and base) or the compaction (input_version_).
MemTablesInUse == Referenced(db, iter, getter) \ {0}

VersionsInUse ==
    {db.versions_.current_id_} \cup (IF iter.open THEN {iter.version} ELSE {})
        \cup (IF getter.pc = "reading" THEN {getter.version} ELSE {})
        \cup (IF bg.pc \in {"flush", "compact"} THEN {bg.version} ELSE {})

\* C30: while the DB is open, a MemTable or a Version that a Get, the
\* iterator, the flush or the compaction uses has not been destroyed: its
\* count is the number of references held (the flush reads imm_ under the
\* DB's own reference), so it is at least one and never negative, and an
\* object is destroyed exactly when nothing holds it.
C30_NotDestroyedWhileUsed ==
    main.pc # "closed" =>
        /\ MemTablesInUse \subseteq DOMAIN db.mem_refs_
        /\ \A n \in DOMAIN db.mem_refs_ :
               db.mem_refs_[n] >= 1 /\ db.mem_refs_[n] = MemTableHolders(n)
        /\ DOMAIN memtables = DOMAIN db.mem_refs_
        /\ VersionsInUse \subseteq DOMAIN db.versions_.version_refs_
        /\ \A v \in DOMAIN db.versions_.version_refs_ :
               /\ db.versions_.version_refs_[v] >= 1
               /\ db.versions_.version_refs_[v] = VersionHolders(v)

\* A Get and the iterator hold a MemTable the DB has dropped, the iterator
\* holds a Version that is no longer current, and the background thread holds
\* a Version while it merges tables.
C30_Witness ==
    /\ getter.pc = "reading"
    /\ iter.open
    /\ getter.mem \notin {db.mem_, db.imm_}
    /\ iter.mem \notin {db.mem_, db.imm_}
    /\ iter.version # db.versions_.current_id_
    /\ bg.pc = "compact"
    /\ db.versions_.version_refs_[bg.version] >= 2

\* C31: when shutting_down_ is set while DoCompactionWork is merging, the
\* compaction applies no edit (the current Version and the manifest are as
\* before) and leaves none of the table files it created in the directory.
C31_AbortedCompactionLeavesNothing ==
    [][(bg.pc = "compact" /\ db.shutting_down_ /\ bg'.pc # "compact") =>
           /\ db'.versions_.current_ = db.versions_.current_
           /\ db'.versions_.current_id_ = db.versions_.current_id_
           /\ disk'.manifest = disk.manifest
           /\ DOMAIN disk'.tables = DOMAIN disk.tables]_vars

\* C32: when LogAndApply cannot append or sync the record of the edit, the
\* VersionSet stays as it was: current_ is the same Version, log_number_ and
\* prev_log_number_ keep their values, and the Version that was built is
\* discarded (no Version is added to those alive).
C32_FailedLogAndApplyChangesNothing ==
    [][(bg.pc = "flush" /\ bg'.failures > bg.failures
            /\ DOMAIN disk'.tables # DOMAIN disk.tables) =>
           /\ db'.versions_.current_ = db.versions_.current_
           /\ db'.versions_.current_id_ = db.versions_.current_id_
           /\ db'.versions_.log_number_ = db.versions_.log_number_
           /\ db'.versions_.prev_log_number_ = db.versions_.prev_log_number_
           /\ DOMAIN db'.versions_.version_refs_ \subseteq
                  DOMAIN db.versions_.version_refs_]_vars

\* The sync of the manifest failed after the record of a flush was appended:
\* the last record of the manifest names a table that the current Version
\* does not have.
C32_Witness ==
    /\ bg.failures > 0
    /\ db.versions_.descriptor_status_ = "IOError"
    /\ LET e == disk.manifest[Len(disk.manifest)]
       IN  /\ e.new_files_[0] # <<>>
           /\ \A f \in SeqToSet(db.versions_.current_.files_[0]) :
                  f.number # e.new_files_[0][1].number

\* C33: while level 0 of the current Version holds kL0_StopWritesTrigger
\* files or more, no leader switches memtables (mem_ and the WAL file stay the
\* ones they are), and a leader that finds the memtable full appends nothing
\* to the WAL and adds nothing to a memtable; a write that finds room in the
\* memtable is still logged and applied.
MemTableFull == ApproximateMemoryUsage(memtables[db.mem_]) > db.options_.write_buffer_size

NothingWritten ==
    /\ disk'.logs = disk.logs
    /\ \A n \in DOMAIN memtables \cap DOMAIN memtables' : memtables'[n] = memtables[n]

StopTriggerReached == NumLevelFiles(db.versions_, 0) >= kL0_StopWritesTrigger

C33_StopTriggerBlocksFullMemtable ==
    [][StopTriggerReached =>
           /\ db'.mem_ = db.mem_
           /\ db'.logfile_number_ = db.logfile_number_
           /\ MemTableFull => NothingWritten]_vars

\* A leader waits in MakeRoomForWrite for the stop trigger alone: the
\* memtable is full and no frozen memtable is left to flush.
C33_Witness ==
    /\ StopTriggerReached
    /\ MemTableFull
    /\ db.imm_ = 0
    /\ writer[1].pc = "room"

\* C33 as stated: while level 0 holds kL0_StopWritesTrigger files or more, no
\* step appends to a WAL file or adds an entry to a memtable.
C33_NoWriteAtStopTrigger == [][StopTriggerReached => NothingWritten]_vars

\* C34: when no further writes arrive and no I/O fails, the background thread
\* comes to rest and stays there: imm_ is null, no level has a compaction
\* score of 1 or more, bg_compaction_scheduled_ is false and the thread waits
\* on bg_work_cv_; and in that state a run of BackgroundCall installs no
\* Version, writes no file and leaves the thread waiting.
BgAtRest ==
    /\ bg.pc = "wait"
    /\ db.imm_ = 0
    /\ ~SizeCompaction(db.versions_.current_)
    /\ ~db.bg_compaction_scheduled_

CompactionStepIdle ==
    LET r == BackgroundThreadMain([EngineState EXCEPT !.db.bg_compaction_scheduled_ = TRUE])
    IN  /\ r.pc = "wait"
        /\ r.state.disk = disk
        /\ r.state.memtables = memtables
        /\ [r.state.db EXCEPT !.bg_cv_ = db.bg_cv_] = db

C34_BackgroundComesToRest == <>[](BgAtRest /\ CompactionStepIdle)

\* The thread rests after it has flushed every write and compacted level 0.
C34_Witness ==
    /\ BgAtRest
    /\ Len(ops) = MaxWritesLive
    /\ \E level \in 1..(kNumLevels - 1) : NumLevelFiles(db.versions_, level) > 0

\* C35: while the leader appends to or syncs the WAL, a Get or a NewIterator
\* of another thread can take its snapshot: it does not have to wait for the
\* end of the I/O.
C35_ReadersNotBlockedByWalIO ==
    (MutexHeld /\ getter.pc = "idle" /\ ~iter.open) => ENABLED ReaderLocks

\* The numbers of the table files of a Version.
FileNumbers(files_) == UNION {{f.number : f \in SeqToSet(files_[l])} : l \in Levels}

\* The table files a live Version names: the current one, the input Version
\* of the compaction in progress, and the Versions an iterator or a Get holds.
LiveTables ==
    FileNumbers(db.versions_.current_.files_)
        \cup (IF bg.pc = "compact" THEN FileNumbers(bg.c.input_version_) ELSE {})
        \cup (IF iter.open THEN FileNumbers(iter.files_) ELSE {})
        \cup (IF getter.pc = "reading" THEN FileNumbers(getter.files_) ELSE {})

\* The table files that an edit logged in the manifest has deleted.
DeletedByEdits ==
    UNION {{d[2] : d \in disk.manifest[i].deleted_files_} : i \in DOMAIN disk.manifest}

ObsoleteTable(n) ==
    /\ n \in DOMAIN disk.tables
    /\ n \in DeletedByEdits
    /\ n \notin LiveTables

\* C36: a table file that the edit of a compaction has deleted and that no
\* live Version names any more is eventually removed from the directory.
C36_ObsoleteTableRemoved ==
    \A n \in 1..MaxFileNumberLive : ObsoleteTable(n) ~> (n \notin DOMAIN disk.tables)

\* The files of `files`, in the order Version::Get consults them, that it
\* reaches and that do not hold the key.
MissesIn(tables, files, ikey) ==
    {files[i].number : i \in {j \in DOMAIN files :
        \A h \in 1..j : TableCacheGet(tables, files[h].number, ikey).state = "kNotFound"}}

RECURSIVE ConsultedMisses(_, _, _, _)
ConsultedMisses(files_, tables, ikey, level) ==
    IF level >= kNumLevels THEN {}
    ELSE LET files == FilesToSearch(files_[level], level, ikey)
         IN  MissesIn(tables, files, ikey)
                 \cup (IF SearchFiles(tables, files, 1, ikey).state # "kNotFound" THEN {}
                       ELSE ConsultedMisses(files_, tables, ikey, level + 1))

\* The table files the Get in progress consults without finding its key: none
\* when mem or imm decides.
GetMisses ==
    LET lkey == LookupKey(getter.key, getter.seq)
    IN  IF MemTableGet(memtables[getter.mem], lkey).hit THEN {}
        ELSE IF getter.imm # 0 /\ MemTableGet(memtables[getter.imm], lkey).hit THEN {}
        ELSE ConsultedMisses(getter.files_, disk.tables, lkey, 0)

\* C37: a Get that consults a table file without finding the key counts down
\* the allowed_seeks of that file; when the count reaches zero and no level
\* has a compaction score of 1 or more, the file becomes file_to_compact_ and
\* a compaction is scheduled.
C37_MissCountsDownAllowedSeeks ==
    [][(getter.pc = "reading" /\ getter'.pc = "idle") =>
          \A n \in GetMisses :
              /\ db'.versions_.allowed_seeks_[n] = db.versions_.allowed_seeks_[n] - 1
              /\ (db'.versions_.allowed_seeks_[n] <= 0 /\ ~SizeCompaction(db'.versions_.current_))
                     => /\ db'.versions_.current_.file_to_compact_ = n
                        /\ db'.bg_compaction_scheduled_]_vars

C37_AllowedSeeksInitialised ==
    \A l \in Levels : \A f \in SeqToSet(db.versions_.current_.files_[l]) :
        /\ f.number \in DOMAIN db.versions_.allowed_seeks_
        /\ db.versions_.allowed_seeks_[f.number] = AllowedSeeks(f)

\* The bytes AddRecord has written for the records of `ops`.
RECURSIVE EncodedFile(_)
EncodedFile(records) ==
    IF records = <<>> THEN <<>> ELSE RecordBytes(Head(records)) \o EncodedFile(Tail(records))

\* The lengths at which the file ends between two records.
RecordBoundaries == {Len(EncodedFile(SubSeq(ops, 1, n))) : n \in 0..Len(ops)}

\* The file has lost its end inside a record: inside its header or its data.
TruncatedInsideRecord == main.damage = "truncated" /\ Len(disk) \notin RecordBoundaries

\* The file the reader has come to the end of: a call has returned false.
ReaderStopped == main.pc = "read" /\ getter.returned = "false"

\* C38: ReadRecord returns the records AddRecord wrote, in order and
\* unchanged; once it has returned false it returns false for ever; and when
\* the file was damaged (it ends inside a record, or a byte of it was changed)
\* the call that returns false has set a Corruption status.
C38_ReaderReportsDamage ==
    /\ IsPrefix(getter.records, ops)
    /\ ReaderStopped /\ main.damage = "none" => getter.records = ops /\ getter.status_ = "OK"
    /\ ReaderStopped /\ (TruncatedInsideRecord \/ main.damage = "corrupted")
           => getter.status_ = "Corruption"

C38_StaysStopped == [][getter.returned = "false" => getter'.returned = "false"]_vars

\* The WAL record of a Put or Delete written on its own fits in one record.
FitsAlone(o) ==
    RecordSize(<<[user_key |-> o.key, sequence |-> 1, type |-> o.type, value |-> o.value]>>)
        <= kMaxWalRecord

\* C39: a Put or Delete whose own record fits in one WAL record is never
\* failed with the status AddRecord gives a record that is too large,
\* whatever writers it was grouped with.
C39_BatchNeverTooLarge ==
    \A j \in DOMAIN ops : FitsAlone(ops[j]) => ops[j].status # "NotSupported"

\* C40: when the flush of the frozen memtable fails, at the table or at
\* LogAndApply, imm_ stays the same memtable with the same entries and the
\* same number of references, the current Version has the files it had, and
\* a Get of the key of any entry of the frozen memtable finds that entry or a
\* newer one.
C40_FailedFlushKeepsImm ==
    [][(bg.pc = "flush" /\ bg'.failures > bg.failures) =>
           /\ db.imm_ # 0
           /\ db'.imm_ = db.imm_
           /\ db'.mem_refs_[db.imm_] = db.mem_refs_[db.imm_]
           /\ memtables'[db.imm_] = memtables[db.imm_]
           /\ db'.versions_.current_.files_ = db.versions_.current_.files_
           /\ \A e \in memtables[db.imm_] :
                  /\ GetNow(e.user_key)'.status = "OK"
                  /\ GetNow(e.user_key)'.sequence >= e.sequence]_vars

\* After a failed flush a Get has returned an entry that only the frozen
\* memtable holds: no table of the current Version and not mem_.
C40_Witness ==
    /\ bg.failures > 0
    /\ db.imm_ # 0
    /\ getter.pc = "idle"
    /\ getter.status = "OK"
    /\ \E e \in memtables[db.imm_] :
          /\ e.user_key = getter.key
          /\ e.sequence = getter.sequence
    /\ \A e \in memtables[db.mem_] : e.user_key # getter.key
    /\ \A l \in DOMAIN db.versions_.current_.files_ :
          \A f \in SeqToSet(db.versions_.current_.files_[l]) :
              \A e \in disk.tables[f.number].entries : e.user_key # getter.key

====
